---- MODULE Spec2Model ----
(***************************************************************************)
(* AgriClime Sentinel: the severe-weather analysis route                   *)
(* (app/api/severe-weather/route.ts, here src/unnamed/part_008) and the    *)
(* in-memory rate limiter it calls (lib/middleware/rate-limit.ts, here     *)
(* src/unnamed/part_000). RateSpec drives one limiter alone, with a small   *)
(* configuration; TrendSpec is analyzeTrend of lib/api/climate-trends,     *)
(* taken from its specification. IsolationSpec and SharedStoreSpec drive    *)
(* the limiter with several clients, URLs and configurations; MapSpec is   *)
(* the map-data route (app/api/map-data/route.ts); CountyMapSpec and       *)
(* RadarSpec are the two map components of the browser                     *)
(* (components/Map/CountyMap.tsx, components/Map/RadarOverlay.tsx).        *)
(*                                                                         *)
(* Temperatures are integers (tenths of a degree); wind speeds are         *)
(* integers in 1e-6 m/s; times are milliseconds.                           *)
(***************************************************************************)
EXTENDS Integers, Sequences, FiniteSets, TLC

VARIABLES
    now,              \* Date.now(), ms
    rateLimitStore,   \* module-level Map key -> RateLimitEntry
    calls,            \* handler invocations started so far
    pc,               \* position of the handler invocation in flight
    request,          \* the NextRequest being handled
    rateLimitResult,  \* result of limiter(request)
    soundingFetch,    \* the fetchNOAASounding promise and its upstream call
    heatFetch,        \* the fetchHeatwaveData promise and its upstream call
    sounding,         \* GET/POST local
    dataSource,       \* GET local
    heatwaveData,     \* GET local
    response,         \* what the handler returned
    limiterConfig,    \* the RateLimitConfig the limiter under test was built with
    history,          \* record of the calls of that limiter: key, time, result
    shadow,           \* the same calls replayed on a store that is never cleaned
    trend,            \* a series handed to analyzeTrend and what came back
    mapRoute,         \* GET /api/map-data: the invocation in flight
    countyMap,        \* the CountyMap component: props, mapRef, maps, calls
    radar             \* the RadarOverlay component: props, refs, map, calls

vars == <<now, rateLimitStore, calls, pc, request, rateLimitResult,
          soundingFetch, heatFetch, sounding, dataSource, heatwaveData,
          response, limiterConfig, history, shadow, trend,
          mapRoute, countyMap, radar>>

\* what only the map route and the map components touch
uiVars == <<mapRoute, countyMap, radar>>

\* what the route handlers never touch
limiterVars == <<limiterConfig, history, shadow>>

\* what the components of the browser never touch
serverVars == <<now, rateLimitStore, calls, pc, request, rateLimitResult,
                soundingFetch, heatFetch, sounding, dataSource, heatwaveData,
                response, limiterVars, trend, mapRoute>>

(***************************************************************************)
(* Bounds of the model                                                     *)
(***************************************************************************)
MaxCalls == 1       \* handler invocations in one behaviour
MaxWindow == 7      \* free days in a generated temperature series
MaxPad == 120       \* cool days before / after the free days
MaxTicks == 2       \* clock advances of half a window

(***************************************************************************)
(* JavaScript values                                                       *)
(***************************************************************************)
\* `null` inside a numeric array (temperature_2m_max may hold nulls)
Null == -1000
\* `null` / `undefined` as a whole value
NullValue == [isNull |-> TRUE]
Undefined == [isUndefined |-> TRUE]

Range(s) == {s[i] : i \in 1..Len(s)}

\* Array.prototype.filter
Filter(s, keep) == LET T(x) == x \in keep IN SelectSeq(s, T)

\* [...a].sort((a, b) => a - b): ascending order, by selection: the elements
\* equal to the least value, then the rest sorted
RECURSIVE SortValues(_, _)
SortValues(s, vals) ==
    IF vals = {} THEN <<>>
    ELSE LET least == CHOOSE x \in vals : \A y \in vals : x <= y
             IsLeast(t) == t = least
         IN SelectSeq(s, IsLeast) \o SortValues(s, vals \ {least})

SortAscending(s) == SortValues(s, Range(s))

\* Math.max(...a) of a non-empty array
MathMax(s) == CHOOSE m \in Range(s) : \A v \in Range(s) : v <= m

(***************************************************************************)
(* fetchHeatwaveData (part_008:17-97)                                      *)
(***************************************************************************)
PercentileNum == 95
HeatWaveRun == 3

\* Math.floor(length * 0.95), 0-based index into the sorted copy
PercentileIndexNinety(length) == (length * 90) \div 100
PercentileIndex(length) == (length * PercentileNum) \div 100

\* const temp95 = sortedTemps[Math.floor(sortedTemps.length * 0.95)]
Temp95(temperatures) ==
    LET sortedTemps == SortAscending(temperatures)
    IN sortedTemps[PercentileIndex(Len(sortedTemps)) + 1]

IsAboveOrEqual(temp, temp95) == temp >= temp95
\* the test `t > temp95` / `temp > temp95`
IsAbove(temp, temp95) == temp > temp95

\* temperatures.filter((t) => t > temp95).length
ExtremeHeatDays(temperatures, temp95) ==
    Len(Filter(temperatures, {t \in Range(temperatures) : IsAbove(t, temp95)}))

LoopInit == [heatWaves |-> 0, consecutiveHot |-> 0, currentConsecutive |-> 0]

LoopBodyEveryDay(st, temp, temp95) ==
    IF IsAbove(temp, temp95)
    THEN [heatWaves |-> IF st.consecutiveHot + 1 >= HeatWaveRun
                        THEN st.heatWaves + 1 ELSE st.heatWaves,
          consecutiveHot |-> st.consecutiveHot + 1,
          currentConsecutive |-> st.currentConsecutive + 1]
    ELSE [heatWaves |-> st.heatWaves, consecutiveHot |-> 0,
          currentConsecutive |-> 0]

LoopBodyNoReset(st, temp, temp95) ==
    IF IsAbove(temp, temp95)
    THEN [heatWaves |-> IF st.consecutiveHot + 1 = HeatWaveRun
                        THEN st.heatWaves + 1 ELSE st.heatWaves,
          consecutiveHot |-> st.consecutiveHot + 1,
          currentConsecutive |-> st.currentConsecutive + 1]
    ELSE [heatWaves |-> st.heatWaves, consecutiveHot |-> 0,
          currentConsecutive |-> st.currentConsecutive]

\* one iteration of `for (const temp of temperatures)`
LoopBody(st, temp, temp95) ==
    IF IsAbove(temp, temp95)
    THEN [heatWaves |-> IF st.consecutiveHot + 1 = HeatWaveRun
                        THEN st.heatWaves + 1 ELSE st.heatWaves,
          consecutiveHot |-> st.consecutiveHot + 1,
          currentConsecutive |-> st.currentConsecutive + 1]
    ELSE [heatWaves |-> st.heatWaves, consecutiveHot |-> 0,
          currentConsecutive |-> 0]

\* the loop over days lo..hi, in order, from loop state st (split in halves
\* so that the evaluation stays shallow on long series)
RECURSIVE DetectLoop(_, _, _, _, _)
DetectLoop(temperatures, temp95, lo, hi, st) ==
    IF lo > hi THEN st
    ELSE IF lo = hi THEN LoopBody(st, temperatures[lo], temp95)
    ELSE LET mid == (lo + hi) \div 2
             first == DetectLoop(temperatures, temp95, lo, mid, st)
         IN IF first.heatWaves < 0 THEN first  \* never: the count is >= 0
            ELSE DetectLoop(temperatures, temp95, mid + 1, hi, first)

\* lines 48-93: the metrics of a parsed body `data`; a body without
\* `daily` or without `daily.temperature_2m_max` lacks that field
HeatMetrics(data) ==
    IF "daily" \notin DOMAIN data
       \/ "temperature_2m_max" \notin DOMAIN data.daily
    THEN NullValue
    ELSE LET raw == data.daily.temperature_2m_max
             temperatures == Filter(raw, Range(raw) \ {Null})
         IN IF Len(temperatures) = 0 THEN NullValue
            ELSE LET temp95 == Temp95(temperatures)
                     st == DetectLoop(temperatures, temp95, 1, Len(temperatures), LoopInit)
                 IN [heatWaves |-> st.heatWaves,
                     extremeHeatDays |-> ExtremeHeatDays(temperatures, temp95),
                     consecutiveHotDays |-> st.currentConsecutive,
                     maxTemperature |-> MathMax(temperatures)]

\* What the promise of fetchHeatwaveData resolves to, given how the
\* upstream call went: fetch rejected, a non-OK status, a body that is not
\* JSON (response.json() rejects), or a parsed body.
FetchHeatwaveResult(resp) ==
    IF resp.kind = "networkError" THEN NullValue
    ELSE IF ~resp.ok THEN NullValue
    ELSE IF ~resp.json THEN NullValue
    ELSE HeatMetrics(resp.data)

(***************************************************************************)
(* Upstream answers of the Open-Meteo archive                              *)
(***************************************************************************)
NetworkError == [kind |-> "networkError"]
HttpError == [kind |-> "http", ok |-> FALSE]
InvalidJson == [kind |-> "http", ok |-> TRUE, json |-> FALSE]
OkBody(data) == [kind |-> "http", ok |-> TRUE, json |-> TRUE, data |-> data]
DailyMax(raw) == OkBody([daily |-> [temperature_2m_max |-> raw]])

\* three temperatures, cool < warm < hot
InputTemps == <<200, 300, 350>>
Cool == InputTemps[1]

Pad(n) == [i \in 1..n |-> Cool]

\* The series the detection is exercised on: up to MaxWindow days that are
\* warm, hot or null, alone or inside a long cool spell.
SeriesInputs ==
    {Pad(a) \o w \o Pad(b) :
        a \in {0, MaxPad}, b \in {0, MaxPad},
        w \in UNION {[1..k -> {InputTemps[2], InputTemps[3], Null}] : k \in 0..MaxWindow}}

(***************************************************************************)
(* The rate limiter (part_000)                                             *)
(***************************************************************************)
maxRequests == 60
windowMs == 60 * 1000
StandardPreset ==
    [maxRequests |-> maxRequests, windowMs |-> windowMs,
     message |-> "Rate limit exceeded. Please slow down your requests."]

\* a request header or query parameter that is not there (get() gives null)
Absent == "(absent)"
\* JavaScript truthiness of a string-or-null
Truthy(str) == str # Absent /\ str # ""

\* A header value is held as the sequence of its tokens: "," and " " (a
\* white-space character) are tokens of their own, every other token is a
\* run of characters with neither. headers.get() of a header that is not
\* there gives null, held as NoHeader.
NoHeader == <<Absent>>
TruthyText(text) == text # NoHeader /\ text # <<>>

\* text.split(",")[0]
SplitFirst(text) ==
    LET commas == {i \in 1..Len(text) : text[i] = ","}
    IN IF commas = {} THEN text
       ELSE SubSeq(text, 1, (CHOOSE i \in commas : \A j \in commas : i <= j) - 1)

\* text.trim()
TrimText(text) ==
    LET solid == {i \in 1..Len(text) : text[i] # " "}
    IN IF solid = {} THEN <<>>
       ELSE SubSeq(text, CHOOSE i \in solid : \A j \in solid : i <= j,
                         CHOOSE i \in solid : \A j \in solid : j <= i)

\* the string a text is
RECURSIVE TextString(_)
TextString(text) ==
    IF text = <<>> THEN "" ELSE Head(text) \o TextString(Tail(text))

\* getClientIdentifier (lines 50-60): cfConnectingIp || realIp ||
\* forwarded?.split(",")[0] || "unknown", trimmed
getClientIdentifier(headers) ==
    LET first == IF headers.forwarded = NoHeader THEN NoHeader
                 ELSE SplitFirst(headers.forwarded)
        ip == IF TruthyText(headers.cfConnectingIp) THEN headers.cfConnectingIp
              ELSE IF TruthyText(headers.realIp) THEN headers.realIp
              ELSE IF TruthyText(first) THEN first
              ELSE <<"unknown">>
    IN TextString(TrimText(ip))

\* a limiter that keeps one counter for a URL, whoever asks
RateLimitKeyUrlOnly(req) == req.href

\* `${identifier}:${request.url}`
RateLimitKey(req) == getClientIdentifier(req.headers) \o ":" \o req.href

\* line 83: the stored window is over
WindowExpiredAtReset(entry, time) == entry.resetTime <= time
WindowAlwaysExpired(entry, time) == TRUE
WindowExpired(entry, time) == entry.resetTime < time

\* line 96
IsAllowedBelowLimit(count, config) == count < config.maxRequests
IsAllowed(count, config) == count <= config.maxRequests

\* line 97: Math.max(0, maxRequests - entry.count)
RemainingUnclamped(count, config) == config.maxRequests - count
Remaining(count, config) ==
    IF config.maxRequests - count > 0 THEN config.maxRequests - count ELSE 0

\* a limiter that restarts the window at every refused request
checkRateLimitExtendingWindow(config, req, store, time) ==
    LET key == RateLimitKey(req)
        fresh == key \notin DOMAIN store \/ WindowExpired(store[key], time)
        entry == IF fresh THEN [count |-> 0, resetTime |-> time + config.windowMs]
                 ELSE store[key]
        count == entry.count + 1
        isAllowed == IsAllowed(count, config)
        resetTime == IF isAllowed THEN entry.resetTime ELSE time + config.windowMs
    IN [store |-> (key :> [count |-> count, resetTime |-> resetTime]) @@ store,
        result |-> [isAllowed |-> isAllowed,
                    remaining |-> Remaining(count, config),
                    resetTime |-> resetTime,
                    message |-> IF isAllowed THEN Absent
                                ELSE IF Truthy(config.message) THEN config.message
                                ELSE "Rate limit exceeded"]]

\* a limiter that counts in a store of its own, empty when it is built
checkRateLimitOwnStore(config, req, store, time) ==
    LET key == RateLimitKey(req)
        isAllowed == IsAllowed(1, config)
    IN [store |-> (key :> [count |-> 1, resetTime |-> time + config.windowMs]) @@ store,
        result |-> [isAllowed |-> isAllowed,
                    remaining |-> Remaining(1, config),
                    resetTime |-> time + config.windowMs,
                    message |-> IF isAllowed THEN Absent
                                ELSE IF Truthy(config.message) THEN config.message
                                ELSE "Rate limit exceeded"]]

\* checkRateLimit (part_000:71-106) at time `now` on store `store`:
\* the store afterwards and the result returned
checkRateLimit(config, req, store, time) ==
    LET key == RateLimitKey(req)
        fresh == key \notin DOMAIN store \/ WindowExpired(store[key], time)
        entry == IF fresh THEN [count |-> 0, resetTime |-> time + config.windowMs]
                 ELSE store[key]
        count == entry.count + 1
        isAllowed == IsAllowed(count, config)
        remaining == Remaining(count, config)
    IN [store |-> (key :> [count |-> count, resetTime |-> entry.resetTime]) @@ store,
        result |-> [isAllowed |-> isAllowed,
                    remaining |-> remaining,
                    resetTime |-> entry.resetTime,
                    message |-> IF isAllowed THEN Absent
                                ELSE IF Truthy(config.message) THEN config.message
                                ELSE "Rate limit exceeded"]]

\* the setInterval callback of lines 37-44, run at time `time`
EntryIsStaleOrDue(entry, time) == entry.resetTime <= time
EntryIsStale(entry, time) == entry.resetTime < time
cleanupExpired(store, time) ==
    [key \in {k \in DOMAIN store : ~EntryIsStale(store[k], time)} |-> store[key]]

\* new Date(ms).toISOString(): the instant, as text
ISOString(ms) == [iso |-> ms]

\* Math.ceil(ms / 1000)
CeilSeconds(ms) == -((-ms) \div 1000)

\* createRateLimitResponse (part_000:157-181)
createRateLimitResponse(result, time) ==
    [status |-> 429,
     body |-> [error |-> IF Truthy(result.message) THEN result.message
                         ELSE "Rate limit exceeded",
               retryAfter |-> CeilSeconds(result.resetTime - time),
               resetTime |-> ISOString(result.resetTime)],
     headers |-> [contentType |-> "application/json",
                  limit |-> "60",
                  remaining |-> result.remaining,
                  reset |-> ISOString(result.resetTime),
                  retryAfter |-> CeilSeconds(result.resetTime - time)]]

\* addRateLimitHeaders (part_000:186-199): a copy of the response with two
\* headers set; the headers it had stay
addRateLimitHeaders(resp, result) ==
    [resp EXCEPT !.headers = [remaining |-> result.remaining,
                              reset |-> ISOString(result.resetTime)] @@ @]

\* NextResponse.json(body, {status})
JsonResponse(status, body) ==
    [status |-> status, body |-> body,
     headers |-> [contentType |-> "application/json"]]

(***************************************************************************)
(* Soundings                                                               *)
(***************************************************************************)
KnotsToMs == 514444

\* lines 148-171: the six parallel arrays built from the levels of a profile
SoundingFromProfile(levels) ==
    [pressure |-> [i \in 1..Len(levels) |-> levels[i].pres],
     temperature |-> [i \in 1..Len(levels) |-> levels[i].tmpc],
     dewpoint |-> [i \in 1..Len(levels) |-> levels[i].dwpc],
     height |-> [i \in 1..Len(levels) |-> levels[i].hght],
     windSpeed |-> [i \in 1..Len(levels) |-> levels[i].sknt * KnotsToMs],
     windDirection |-> [i \in 1..Len(levels) |-> levels[i].drct]]

\* lines 136-171: the sounding of a parsed body `data`
ParseSounding(data) ==
    IF "profiles" \notin DOMAIN data \/ Len(data.profiles) = 0 THEN NullValue
    ELSE LET profile == data.profiles[1]
         IN IF "profile" \notin DOMAIN profile \/ Len(profile.profile) = 0
            THEN NullValue
            ELSE SoundingFromProfile(profile.profile)

\* What the promise of fetchNOAASounding resolves to, given how the upstream
\* call went (lines 108-174): every failure is caught and becomes null.
FetchNOAASoundingResult(resp) ==
    IF resp.kind = "networkError" THEN NullValue
    ELSE IF ~resp.ok THEN NullValue
    ELSE IF ~resp.json THEN NullValue
    ELSE ParseSounding(resp.data)

\* generateSampleSounding() of lib/api/severe-weather-indices: one fixed,
\* well-formed synthetic profile
generateSampleSounding ==
    [pressure |-> <<1000, 850, 700, 500>>,
     temperature |-> <<250, 180, 80, -120>>,
     dewpoint |-> <<200, 140, 20, -250>>,
     height |-> <<100, 1500, 3000, 5500>>,
     windSpeed |-> <<5000000, 10000000, 15000000, 25000000>>,
     windDirection |-> <<180, 200, 230, 260>>]

SoundingArrays ==
    {"pressure", "temperature", "dewpoint", "height", "windSpeed", "windDirection"}

\* a sounding the model accepts: six arrays of one length, 2 levels or more
ValidSounding(s) ==
    /\ SoundingArrays \subseteq DOMAIN s
    /\ \A a \in SoundingArrays : Len(s[a]) = Len(s.pressure)
    /\ Len(s.pressure) >= 2

\* calculateSevereWeatherIndices(sounding, heat?) of
\* lib/api/severe-weather-indices: throws on a malformed sounding, else the
\* indices, held here as what they were computed from
calculateSevereWeatherIndices(s, heat) ==
    IF ValidSounding(s)
    THEN [threw |-> FALSE, indices |-> [sounding |-> s, heatwave |-> heat]]
    ELSE [threw |-> TRUE]

Idle == [state |-> "idle"]

\* line 42 / 129: if (!response.ok) return null, else await response.json()
ReadsBody(resp) == resp.kind = "http" /\ resp.ok

\* fetchHeatwaveData resumed after `await fetch` (lines 35-46): a rejected
\* fetch or a response that is not ok settles the promise with null; else
\* the function waits for the body at `await response.json()`
fetchHeatwaveDataResume ==
    /\ UNCHANGED uiVars
    /\ heatFetch.state = "responded"
    /\ heatFetch' = IF ReadsBody(heatFetch.resp)
                    THEN [state |-> "reading", resp |-> heatFetch.resp]
                    ELSE [state |-> "settled", resp |-> heatFetch.resp,
                          result |-> FetchHeatwaveResult(heatFetch.resp)]
    /\ UNCHANGED <<now, rateLimitStore, calls, pc, request, rateLimitResult,
                   soundingFetch, sounding, dataSource, heatwaveData, response>>
    /\ UNCHANGED <<limiterVars, trend>>

\* the body of the response has arrived, if it ever does
HeatBodyArrives ==
    /\ UNCHANGED uiVars
    /\ heatFetch.state = "reading"
    /\ heatFetch' = [state |-> "read", resp |-> heatFetch.resp]
    /\ UNCHANGED <<now, rateLimitStore, calls, pc, request, rateLimitResult,
                   soundingFetch, sounding, dataSource, heatwaveData, response>>
    /\ UNCHANGED <<limiterVars, trend>>

\* fetchHeatwaveData resumed after `await response.json()` (lines 46-96):
\* the promise settles, always by resolving
fetchHeatwaveDataSettle ==
    /\ UNCHANGED uiVars
    /\ heatFetch.state = "read"
    /\ heatFetch' = [state |-> "settled", resp |-> heatFetch.resp,
                     result |-> FetchHeatwaveResult(heatFetch.resp)]
    /\ UNCHANGED <<now, rateLimitStore, calls, pc, request, rateLimitResult,
                   soundingFetch, sounding, dataSource, heatwaveData, response>>
    /\ UNCHANGED <<limiterVars, trend>>

(***************************************************************************)
(* Upstream answers of the Iowa Mesonet sounding service                   *)
(***************************************************************************)
MaxLevels == 2

\* level k of an upstream profile (hPa, tenths of a degree, m, knots, deg)
Level(k) ==
    [pres |-> 1000 - 150 * k, tmpc |-> 300 - 70 * k, dwpc |-> 220 - 90 * k,
     hght |-> 1400 * k, sknt |-> 10 * k, drct |-> 170 + 20 * k]

SoundingAnswers ==
    {NetworkError, HttpError, InvalidJson,
     OkBody([error |-> "no data"]),
     OkBody([profiles |-> <<>>]),
     OkBody([profiles |-> <<[station |-> "KDSM"]>>]),
     OkBody([profiles |-> <<[profile |-> <<>>]>>])}
    \cup {OkBody([profiles |-> <<[profile |-> [i \in 1..n |-> Level(i)]]>>]) :
             n \in 1..MaxLevels}

HeatAnswers ==
    {NetworkError, HttpError, InvalidJson,
     OkBody([error |-> "no data"]),
     OkBody([daily |-> [time |-> <<>>]]),
     DailyMax(<<>>), DailyMax(<<Null, Null>>),
     DailyMax(<<InputTemps[2], Null, InputTemps[3]>>)}

(***************************************************************************)
(* Requests                                                                *)
(***************************************************************************)
Path == "/api/severe-weather"

\* no proxy header, and an x-forwarded-for of two addresses
HeaderChoices ==
    {[cfConnectingIp |-> NoHeader, realIp |-> NoHeader, forwarded |-> NoHeader],
     [cfConnectingIp |-> NoHeader, realIp |-> NoHeader,
      forwarded |-> <<"203.0.113.7", " ", ",", " ", "10.0.0.1">>]}

Origin == "http://localhost:3000"

\* the query string of a URL with the parameters `url`, null ones left out
QueryString(url) ==
    LET Param(name, value) == IF value = Absent THEN "" ELSE name \o "=" \o value
        Join(left, right) == IF left = "" THEN right
                             ELSE IF right = "" THEN left
                             ELSE left \o "&" \o right
    IN Join(Join(Param("lat", url.lat), Param("lon", url.lon)),
            Param("sample", url.sample))

\* request.url, the text
Href(url) ==
    Origin \o url.path \o (IF QueryString(url) = "" THEN "" ELSE "?" \o QueryString(url))

\* a request: request.url is held as the text (href) and as the parameters
\* new URL(request.url).searchParams gives (url)
GetRequest(h, lat, lon, sample) ==
    LET url == [path |-> Path, lat |-> lat, lon |-> lon, sample |-> sample]
    IN [method |-> "GET", headers |-> h, url |-> url, href |-> Href(url)]

GetRequests ==
    {GetRequest(h, lat, lon, sample) :
        h \in HeaderChoices,
        lat \in {Absent, "41.5"}, lon \in {"", "-93.6"},
        sample \in {Absent, "true"}}

PostBodies ==
    {[json |-> FALSE],
     [json |-> TRUE, value |-> [pressure |-> <<1000, 850>>, temperature |-> <<250, 180>>]],
     [json |-> TRUE, value |-> [pressure |-> <<1000, 850>>, temperature |-> <<250, 180>>,
                                dewpoint |-> <<200, 140>>]],
     [json |-> TRUE, value |-> SoundingFromProfile([i \in 1..2 |-> Level(i)])],
     \* six arrays, one of them a level short
     [json |-> TRUE, value |-> [SoundingFromProfile([i \in 1..2 |-> Level(i)])
                                    EXCEPT !.temperature = <<250>>]],
     \* six arrays of a single level
     [json |-> TRUE, value |-> SoundingFromProfile([i \in 1..1 |-> Level(i)])]}

PostRequests ==
    {[method |-> "POST", headers |-> h, body |-> b,
      url |-> [path |-> Path, lat |-> Absent, lon |-> Absent, sample |-> Absent],
      href |-> Origin \o Path] :
        h \in HeaderChoices, b \in PostBodies}

\* parseFloat of the query values in use (tenths of a degree)
ParseFloat(str) ==
    CASE str = "41.5" -> 415
      [] str = "-93.6" -> -936

Pending == [state |-> "pending"]

(***************************************************************************)
(* GET /api/severe-weather (part_008:190-267)                              *)
(***************************************************************************)
\* line 210: real data is tried
WantsRealDataIgnoringSample(req) == Truthy(req.url.lat) /\ Truthy(req.url.lon)
WantsRealData(req) ==
    Truthy(req.url.lat) /\ Truthy(req.url.lon) /\ req.url.sample # "true"

\* lines 237-260: the success response
GetSuccess(req, indices, snd, source, result, time) ==
    LET base == [success |-> TRUE, indices |-> indices, sounding |-> snd,
                 dataSource |-> source, timestamp |-> ISOString(time)]
        body == IF Truthy(req.url.lat) /\ Truthy(req.url.lon)
                THEN base @@ [location |-> [latitude |-> ParseFloat(req.url.lat),
                                           longitude |-> ParseFloat(req.url.lon)]]
                ELSE base
    IN addRateLimitHeaders(JsonResponse(200, body), result)

\* lines 261-266 and 310-315
FailureResponse ==
    JsonResponse(500, [error |-> "Failed to calculate severe weather indices"])

\* lines 235-266: the indices of `snd` and `heat`, and the response
GetFinish(req, snd, source, heat, result, time) ==
    LET calc == calculateSevereWeatherIndices(
                    snd, IF heat = NullValue THEN Undefined ELSE heat)
    IN IF calc.threw THEN FailureResponse
       ELSE GetSuccess(req, calc.indices, snd, source, result, time)

StartSoundingOnly == <<Pending, Idle>>
\* lines 215-218: both async functions are called, each runs up to its
\* `await fetch(...)`, and only then does the handler await Promise.all
StartFetches == <<Pending, Pending>>

\* Promise.all of two promises that never reject: it resolves when both have
AllSettled(a, b) == a.state = "settled" /\ b.state = "settled"

\* lines 195 and 283: if (!rateLimitResult.isAllowed)
BlockedNever(result) == FALSE
Blocked(result) == ~result.isAllowed

\* the handler up to its first await (or to its return, when it awaits nothing)
GETEnter(req) ==
    /\ UNCHANGED uiVars
    /\ pc \in {"idle", "done"}
    /\ calls < MaxCalls
    /\ calls' = calls + 1
    /\ request' = req
    /\ LET rl == checkRateLimit(StandardPreset, req, rateLimitStore, now)
       IN /\ rateLimitStore' = rl.store
          /\ rateLimitResult' = rl.result
          /\ IF Blocked(rl.result)
             THEN /\ response' = createRateLimitResponse(rl.result, now)
                  /\ pc' = "done"
                  /\ soundingFetch' = Idle /\ heatFetch' = Idle
                  /\ sounding' = Undefined /\ dataSource' = Undefined
                  /\ heatwaveData' = Undefined
             ELSE IF WantsRealData(req)
             THEN /\ soundingFetch' = StartFetches[1]
                  /\ heatFetch' = StartFetches[2]
                  /\ pc' = "get:await"
                  /\ sounding' = Undefined
                  /\ dataSource' = "sample"
                  /\ heatwaveData' = NullValue
                  /\ response' = NullValue
             ELSE /\ soundingFetch' = Idle /\ heatFetch' = Idle
                  /\ sounding' = generateSampleSounding
                  /\ dataSource' = "sample"
                  /\ heatwaveData' = NullValue
                  /\ response' = GetFinish(req, generateSampleSounding, "sample",
                                           NullValue, rl.result, now)
                  /\ pc' = "done"
    /\ UNCHANGED now
    /\ UNCHANGED <<limiterVars, trend>>

\* lines 220-227: the sounding analysed and its label
ChooseSoundingAlwaysLabelledReal(noaaSounding) ==
    IF noaaSounding # NullValue
    THEN [sounding |-> noaaSounding, dataSource |-> "NOAA HRRR Model"]
    ELSE [sounding |-> generateSampleSounding, dataSource |-> "NOAA HRRR Model"]

ChooseSounding(noaaSounding) ==
    IF noaaSounding # NullValue
    THEN [sounding |-> noaaSounding, dataSource |-> "NOAA HRRR Model"]
    ELSE [sounding |-> generateSampleSounding,
          dataSource |-> "sample (NOAA data unavailable)"]

KeepHeatwaveOnlyWithSounding(noaaSounding, heatwave) ==
    IF noaaSounding # NullValue THEN heatwave ELSE NullValue
\* line 229: heatwaveData = heatwave
KeepHeatwave(noaaSounding, heatwave) == heatwave

\* the handler from the resolution of Promise.all to its return
GETResume ==
    /\ UNCHANGED uiVars
    /\ pc = "get:await"
    /\ AllSettled(soundingFetch, heatFetch)
    /\ LET noaaSounding == soundingFetch.result
           heatwave == heatFetch.result
           chosen == ChooseSounding(noaaSounding)
           heat == KeepHeatwave(noaaSounding, heatwave)
       IN /\ sounding' = chosen.sounding
          /\ dataSource' = chosen.dataSource
          /\ heatwaveData' = heat
          /\ response' = GetFinish(request, chosen.sounding, chosen.dataSource,
                                   heat, rateLimitResult, now)
    /\ pc' = "done"
    /\ UNCHANGED <<now, rateLimitStore, calls, request, rateLimitResult,
                   soundingFetch, heatFetch>>
    /\ UNCHANGED <<limiterVars, trend>>

\* the upstream services answer, if they ever do
SoundingUpstreamAnswers(resp) ==
    /\ UNCHANGED uiVars
    /\ soundingFetch.state = "pending"
    /\ soundingFetch' = [state |-> "responded", resp |-> resp]
    /\ UNCHANGED <<now, rateLimitStore, calls, pc, request, rateLimitResult,
                   heatFetch, sounding, dataSource, heatwaveData, response>>
    /\ UNCHANGED <<limiterVars, trend>>

HeatUpstreamAnswers(resp) ==
    /\ UNCHANGED uiVars
    /\ heatFetch.state = "pending"
    /\ heatFetch' = [state |-> "responded", resp |-> resp]
    /\ UNCHANGED <<now, rateLimitStore, calls, pc, request, rateLimitResult,
                   soundingFetch, sounding, dataSource, heatwaveData, response>>
    /\ UNCHANGED <<limiterVars, trend>>

\* fetchNOAASounding resumed after `await fetch` (lines 122-133): a
\* rejected fetch or a response that is not ok settles the promise with
\* null; else the function waits for the body at `await response.json()`
fetchNOAASoundingResume ==
    /\ UNCHANGED uiVars
    /\ soundingFetch.state = "responded"
    /\ soundingFetch' = IF ReadsBody(soundingFetch.resp)
                        THEN [state |-> "reading", resp |-> soundingFetch.resp]
                        ELSE [state |-> "settled", resp |-> soundingFetch.resp,
                              result |-> FetchNOAASoundingResult(soundingFetch.resp)]
    /\ UNCHANGED <<now, rateLimitStore, calls, pc, request, rateLimitResult,
                   heatFetch, sounding, dataSource, heatwaveData, response>>
    /\ UNCHANGED <<limiterVars, trend>>

\* the body of the response has arrived, if it ever does
SoundingBodyArrives ==
    /\ UNCHANGED uiVars
    /\ soundingFetch.state = "reading"
    /\ soundingFetch' = [state |-> "read", resp |-> soundingFetch.resp]
    /\ UNCHANGED <<now, rateLimitStore, calls, pc, request, rateLimitResult,
                   heatFetch, sounding, dataSource, heatwaveData, response>>
    /\ UNCHANGED <<limiterVars, trend>>

\* fetchNOAASounding resumed after `await response.json()` (lines 133-174):
\* the promise settles, always by resolving
fetchNOAASoundingSettle ==
    /\ UNCHANGED uiVars
    /\ soundingFetch.state = "read"
    /\ soundingFetch' = [state |-> "settled", resp |-> soundingFetch.resp,
                         result |-> FetchNOAASoundingResult(soundingFetch.resp)]
    /\ UNCHANGED <<now, rateLimitStore, calls, pc, request, rateLimitResult,
                   heatFetch, sounding, dataSource, heatwaveData, response>>
    /\ UNCHANGED <<limiterVars, trend>>

(***************************************************************************)
(* POST /api/severe-weather (part_008:278-316)                             *)
(***************************************************************************)
POSTEnter(req) ==
    /\ UNCHANGED uiVars
    /\ pc \in {"idle", "done"}
    /\ calls < MaxCalls
    /\ calls' = calls + 1
    /\ request' = req
    /\ LET rl == checkRateLimit(StandardPreset, req, rateLimitStore, now)
       IN /\ rateLimitStore' = rl.store
          /\ rateLimitResult' = rl.result
          /\ IF Blocked(rl.result)
             THEN /\ response' = createRateLimitResponse(rl.result, now)
                  /\ pc' = "done"
             ELSE /\ response' = NullValue
                  /\ pc' = "post:json"
    /\ soundingFetch' = Idle /\ heatFetch' = Idle
    /\ sounding' = Undefined /\ dataSource' = Undefined
    /\ heatwaveData' = Undefined
    /\ UNCHANGED now
    /\ UNCHANGED <<limiterVars, trend>>

\* lines 288-315, once request.json() has settled
PostFinish(body, result, time) ==
    IF ~body.json THEN FailureResponse
    ELSE IF {"pressure", "temperature", "dewpoint"} \subseteq DOMAIN body.value
    THEN LET calc == calculateSevereWeatherIndices(body.value, Undefined)
         IN IF calc.threw THEN FailureResponse
            ELSE addRateLimitHeaders(
                     JsonResponse(200, [success |-> TRUE, indices |-> calc.indices,
                                        timestamp |-> ISOString(time)]),
                     result)
    ELSE JsonResponse(400,
             [error |-> "Invalid sounding data. Required: pressure, temperature, dewpoint arrays"])

\* the body of the request has arrived, if it ever does
PostBodyArrives ==
    /\ UNCHANGED uiVars
    /\ pc = "post:json"
    /\ pc' = "post:read"
    /\ UNCHANGED <<now, rateLimitStore, calls, request, rateLimitResult,
                   soundingFetch, heatFetch, sounding, dataSource, heatwaveData,
                   response>>
    /\ UNCHANGED <<limiterVars, trend>>

\* the handler resumed after `await request.json()` (lines 288-315)
POSTResume ==
    /\ UNCHANGED uiVars
    /\ pc = "post:read"
    /\ response' = PostFinish(request.body, rateLimitResult, now)
    /\ sounding' = IF request.body.json THEN request.body.value ELSE Undefined
    /\ pc' = "done"
    /\ UNCHANGED <<now, rateLimitStore, calls, request, rateLimitResult,
                   soundingFetch, heatFetch, dataSource, heatwaveData>>
    /\ UNCHANGED <<limiterVars, trend>>

\* no limiter under test: the handlers build their own from the preset
NoShadow == [store |-> <<>>, result |-> NullValue, deleted |-> {}]

\* time passes
Tick ==
    /\ UNCHANGED uiVars
    /\ now + windowMs \div 2 <= MaxTicks * (windowMs \div 2)
    /\ now' = now + windowMs \div 2
    /\ UNCHANGED <<rateLimitStore, calls, pc, request, rateLimitResult,
                   soundingFetch, heatFetch, sounding, dataSource, heatwaveData,
                   response>>
    /\ UNCHANGED <<limiterVars, trend>>

\* the timer part_000 sets when it is loaded (lines 37-44) fires; it does
\* so once a minute, at instants the model does not fix
cleanupTimer ==
    /\ UNCHANGED uiVars
    /\ rateLimitStore' = cleanupExpired(rateLimitStore, now)
    /\ shadow' = [shadow EXCEPT !.deleted =
                      @ \cup {<<k, rateLimitStore[k].resetTime>> :
                                  k \in DOMAIN rateLimitStore \ DOMAIN rateLimitStore'}]
    /\ UNCHANGED <<now, calls, pc, request, rateLimitResult, soundingFetch,
                   heatFetch, sounding, dataSource, heatwaveData, response,
                   limiterConfig, history, trend>>

(***************************************************************************)
(* Spec: the two handlers, one invocation at a time, and the cleanup timer  *)
(* of the limiter                                                          *)
(***************************************************************************)
\* The store starts empty, or half a window after one client began to use
\* one URL, with one request of that window left or none.
InitialStores ==
    {<<>>} \cup
    {RateLimitKey(r) :> [count |-> c, resetTime |-> windowMs \div 2] :
        r \in {q \in GetRequests \cup PostRequests :
                  q.headers.forwarded = NoHeader /\ (q.method = "POST" \/ WantsRealData(q))},
        c \in {maxRequests - 1, maxRequests}}

Init ==
    /\ now = 0
    /\ rateLimitStore \in InitialStores
    /\ calls = 0
    /\ pc = "idle"
    /\ request = NullValue
    /\ rateLimitResult = NullValue
    /\ soundingFetch = Idle
    /\ heatFetch = Idle
    /\ sounding = Undefined
    /\ dataSource = Undefined
    /\ heatwaveData = Undefined
    /\ response = NullValue
    /\ limiterConfig = StandardPreset
    /\ history = <<>>
    /\ shadow = NoShadow
    /\ trend = NullValue
    /\ mapRoute = NullValue
    /\ countyMap = NullValue
    /\ radar = NullValue

Next ==
    \/ \E req \in GetRequests : GETEnter(req)
    \/ GETResume
    \/ \E resp \in SoundingAnswers : SoundingUpstreamAnswers(resp)
    \/ \E resp \in HeatAnswers : HeatUpstreamAnswers(resp)
    \/ fetchNOAASoundingResume
    \/ fetchHeatwaveDataResume
    \/ SoundingBodyArrives
    \/ HeatBodyArrives
    \/ fetchNOAASoundingSettle
    \/ fetchHeatwaveDataSettle
    \/ \E req \in PostRequests : POSTEnter(req)
    \/ PostBodyArrives
    \/ POSTResume
    \/ Tick
    \/ cleanupTimer

Spec == Init /\ [][Next]_vars

\* The event loop runs every continuation that is ready; nothing makes an
\* upstream service answer or deliver a body, a client send a request or
\* its body, or time reach a value.
LiveSpec ==
    /\ Spec
    /\ WF_vars(GETResume)
    /\ WF_vars(POSTResume)
    /\ WF_vars(fetchNOAASoundingResume)
    /\ WF_vars(fetchHeatwaveDataResume)
    /\ WF_vars(fetchNOAASoundingSettle)
    /\ WF_vars(fetchHeatwaveDataSettle)

(***************************************************************************)
(* HeatSpec: fetchHeatwaveData on every series of SeriesInputs, from the   *)
(* arrival of the body it awaits at line 46                                *)
(***************************************************************************)
HeatInit ==
    /\ now = 0
    /\ rateLimitStore = <<>>
    /\ calls = 0
    /\ pc = "idle"
    /\ request = NullValue
    /\ rateLimitResult = NullValue
    /\ soundingFetch = Idle
    /\ heatFetch \in {[state |-> "read", resp |-> DailyMax(raw)] : raw \in SeriesInputs}
    /\ sounding = Undefined
    /\ dataSource = Undefined
    /\ heatwaveData = Undefined
    /\ response = NullValue
    /\ limiterConfig = StandardPreset
    /\ history = <<>>
    /\ shadow = NoShadow
    /\ trend = NullValue
    /\ mapRoute = NullValue
    /\ countyMap = NullValue
    /\ radar = NullValue

HeatNext == fetchHeatwaveDataSettle

HeatSpec == HeatInit /\ [][HeatNext]_vars

(***************************************************************************)
(* ShortHeatSpec: fetchHeatwaveData on series of every length up to two    *)
(* months, the lengths the 30-day request of lines 27-33 can bring         *)
(***************************************************************************)
MaxLead == 56      \* cool days at one end of a series
MaxTail == 4       \* free days at the other end

\* a cool spell of `a` days with the days `w` after it or before it
ShortSeries(a, w) == {Pad(a) \o w, w \o Pad(a)}

ShortHeatInit ==
    /\ now = 0
    /\ rateLimitStore = <<>>
    /\ calls = 0
    /\ pc = "idle"
    /\ request = NullValue
    /\ rateLimitResult = NullValue
    /\ soundingFetch = Idle
    /\ \E a \in 0..MaxLead, k \in 0..MaxTail :
          \E w \in [1..k -> {InputTemps[2], InputTemps[3], Null}] :
              \E raw \in ShortSeries(a, w) :
                  heatFetch = [state |-> "read", resp |-> DailyMax(raw)]
    /\ sounding = Undefined
    /\ dataSource = Undefined
    /\ heatwaveData = Undefined
    /\ response = NullValue
    /\ limiterConfig = StandardPreset
    /\ history = <<>>
    /\ shadow = NoShadow
    /\ trend = NullValue
    /\ mapRoute = NullValue
    /\ countyMap = NullValue
    /\ radar = NullValue

ShortHeatNext == fetchHeatwaveDataSettle

ShortHeatSpec == ShortHeatInit /\ [][ShortHeatNext]_vars

(***************************************************************************)
(* RateSpec: one limiter, built by rateLimit(config), called directly      *)
(***************************************************************************)
MaxLimit == 2          \* largest maxRequests of a limiter under test
MaxLimiterCalls == 4   \* calls of the limiter in one behaviour
MaxClock == 4          \* last value of Date.now(), ms
TestWindow == 2        \* windowMs of the limiters under test, ms

\* the configurations handed to rateLimit(config); message is optional
LimiterConfigs ==
    {[maxRequests |-> m, windowMs |-> TestWindow, message |-> msg] :
        m \in 1..MaxLimit, msg \in {Absent, "Too many requests"}}
    \cup {StandardPreset}

\* two clients asking for the same URL
LimiterRequests ==
    {q \in GetRequests : q.url.lat = "41.5" /\ q.url.lon = "-93.6" /\ q.url.sample = Absent}

\* limiter(request)
LimiterCall(req) ==
    /\ UNCHANGED uiVars
    /\ calls < MaxLimiterCalls
    /\ calls' = calls + 1
    /\ request' = req
    /\ LET rl == checkRateLimit(limiterConfig, req, rateLimitStore, now)
           sh == checkRateLimit(limiterConfig, req, shadow.store, now)
       IN /\ rateLimitStore' = rl.store
          /\ rateLimitResult' = rl.result
          /\ history' = Append(history, [key |-> RateLimitKey(req), time |-> now,
                                         request |-> req,
                                         result |-> rl.result,
                                         count |-> rl.store[RateLimitKey(req)].count])
          /\ shadow' = [shadow EXCEPT !.store = sh.store, !.result = sh.result]
    /\ UNCHANGED <<now, pc, soundingFetch, heatFetch, sounding, dataSource,
                   heatwaveData, response, limiterConfig, trend>>

\* a millisecond passes
ClockTick ==
    /\ UNCHANGED uiVars
    /\ now < MaxClock
    /\ now' = now + 1
    /\ UNCHANGED <<rateLimitStore, calls, pc, request, rateLimitResult,
                   soundingFetch, heatFetch, sounding, dataSource, heatwaveData,
                   response, limiterVars, trend>>

RateInit ==
    /\ now = 0
    /\ rateLimitStore = <<>>
    /\ calls = 0
    /\ pc = "idle"
    /\ request = NullValue
    /\ rateLimitResult = NullValue
    /\ soundingFetch = Idle
    /\ heatFetch = Idle
    /\ sounding = Undefined
    /\ dataSource = Undefined
    /\ heatwaveData = Undefined
    /\ response = NullValue
    /\ limiterConfig \in LimiterConfigs
    /\ history = <<>>
    /\ shadow = NoShadow
    /\ trend = NullValue
    /\ mapRoute = NullValue
    /\ countyMap = NullValue
    /\ radar = NullValue

RateNext ==
    \/ \E req \in LimiterRequests : LimiterCall(req)
    \/ cleanupTimer
    \/ ClockTick

RateSpec == RateInit /\ [][RateNext]_vars

(***************************************************************************)
(* TrendSpec: analyzeTrend of lib/api/climate-trends, specified as         *)
(* TrendAnalyzer: least-squares slope of value against year, Mann-Kendall  *)
(* significance, and the direction label. Rationals are kept as            *)
(* numerator and positive denominator.                                     *)
(***************************************************************************)
MaxTrendPoints == 5    \* longest series analysed
MaxTrendValue == 4     \* values of a series are 0..MaxTrendValue
FirstYear == 1970

\* "Requires >= 3 points"
MinTrendPoints == 3
\* significant = pValue < 0.05, two-sided: |z| > 1.96, held as z^2 > 3.8415
ZScale == 10000
ZCriticalSquared == 38415

RECURSIVE SumOf(_, _)
SumOf(f, n) == IF n = 0 THEN 0 ELSE f[n] + SumOf(f, n - 1)

Sign(x) == IF x > 0 THEN 1 ELSE IF x < 0 THEN -1 ELSE 0

\* ordinary least squares of value against year
OlsSlope(series) ==
    LET n == Len(series)
        sx == SumOf([i \in 1..n |-> series[i].year - FirstYear], n)
        sy == SumOf([i \in 1..n |-> series[i].value], n)
        sxy == SumOf([i \in 1..n |-> (series[i].year - FirstYear) * series[i].value], n)
        sxx == SumOf([i \in 1..n |-> (series[i].year - FirstYear) * (series[i].year - FirstYear)], n)
    IN [num |-> n * sxy - sx * sy, den |-> n * sxx - sx * sx]

\* Mann-Kendall S: the signs of value[j] - value[i] over all pairs i < j
MannKendallS(series) ==
    LET n == Len(series)
        row(i) == SumOf([j \in 1..n |-> IF j > i
                                        THEN Sign(series[j].value - series[i].value)
                                        ELSE 0], n)
    IN SumOf([i \in 1..n |-> row(i)], n)

\* 18 Var(S) = n(n-1)(2n+5) - sum over groups of t tied values of t(t-1)(2t+5)
MannKendallVariance18(series) ==
    LET n == Len(series)
        ties(v) == Cardinality({i \in 1..n : series[i].value = v})
        term(t) == t * (t - 1) * (2 * t + 5)
        firstOf(i) == \A j \in 1..(i - 1) : series[j].value # series[i].value
    IN term(n) - SumOf([i \in 1..n |-> IF firstOf(i)
                                       THEN term(ties(series[i].value)) ELSE 0], n)

\* z = (S - sign S) / sqrt(Var S), and 0 when S = 0 or all values are tied;
\* the two-sided p-value is below 0.05 exactly when z^2 > 3.8415
Significant(series) ==
    LET s == MannKendallS(series)
        v18 == MannKendallVariance18(series)
        a == (IF s < 0 THEN -s ELSE s) - 1
    IN s # 0 /\ v18 > 0 /\ 18 * a * a * ZScale > ZCriticalSquared * v18

\* the direction label
DirectionBySlopeAlone(slope, significant) ==
    IF slope.num > 0 THEN "warming" ELSE IF slope.num < 0 THEN "cooling" ELSE "no-trend"
Direction(slope, significant) ==
    IF slope.num > 0 /\ significant THEN "warming"
    ELSE IF slope.num < 0 /\ significant THEN "cooling"
    ELSE "no-trend"

TooFewPointsBelowTwo(series) == Len(series) < 2
TooFewPoints(series) == Len(series) < MinTrendPoints

\* analyzeTrend(series): the TrendResult, or the error it fails with
analyzeTrend(series) ==
    IF TooFewPoints(series)
    THEN [threw |-> TRUE, error |-> "InsufficientDataError"]
    ELSE LET slope == OlsSlope(series)
             significant == Significant(series)
         IN [threw |-> FALSE,
             result |-> [series |-> series,
                         slopePerYear |-> slope,
                         mannKendallS |-> MannKendallS(series),
                         significant |-> significant,
                         direction |-> Direction(slope, significant)]]

\* the annual series of the values v: from FirstYear on, ascending, one
\* value a year
TrendSeries(v) == [i \in 1..Len(v) |-> [year |-> FirstYear + i - 1, value |-> v[i]]]

analyzeTrendReturns ==
    /\ UNCHANGED uiVars
    /\ trend.state = "called"
    /\ trend' = [state |-> "returned", series |-> trend.series,
                 outcome |-> analyzeTrend(trend.series)]
    /\ UNCHANGED <<now, rateLimitStore, calls, pc, request, rateLimitResult,
                   soundingFetch, heatFetch, sounding, dataSource, heatwaveData,
                   response, limiterVars>>

TrendInit ==
    /\ now = 0
    /\ rateLimitStore = <<>>
    /\ calls = 0
    /\ pc = "idle"
    /\ request = NullValue
    /\ rateLimitResult = NullValue
    /\ soundingFetch = Idle
    /\ heatFetch = Idle
    /\ sounding = Undefined
    /\ dataSource = Undefined
    /\ heatwaveData = Undefined
    /\ response = NullValue
    /\ limiterConfig = StandardPreset
    /\ history = <<>>
    /\ shadow = NoShadow
    /\ \E n \in 0..MaxTrendPoints :
          \E v \in [1..n -> 0..MaxTrendValue] :
              trend = [state |-> "called", series |-> TrendSeries(v)]
    /\ mapRoute = NullValue
    /\ countyMap = NullValue
    /\ radar = NullValue

TrendNext == analyzeTrendReturns

TrendSpec == TrendInit /\ [][TrendNext]_vars

(***************************************************************************)
(* MapSpec: GET /api/map-data (app/api/map-data/route.ts)                  *)
(***************************************************************************)
MaxCounties == 2     \* rows a query returns at most

MapLayers ==
    {"drought", "precipitation_30day", "temperature_anomaly", "crop_risk",
     "soil_moisture"}

\* parseInt of the year values in use; NaN for text that holds no number
NaN == -2000
ParseInt(str) ==
    CASE str = "2000" -> 2000
      [] str = "abc" -> NaN

Fips == <<"19153", "19169", "19013">>
CountyRows(n) == [i \in 1..n |-> [fips |-> Fips[i]]]

\* rows of climate_data and of climate_baselines (select county_fips,
\* temperature_avg), temperatures in tenths of a degree; the baselines come
\* in the opposite order, and one of them is 0
ClimateRows(table, n) ==
    LET Readings == <<215, 198, 230>>
        Normals == <<201, 0, 190>>
    IN [i \in 1..n |->
           IF table = "climate_data"
           THEN [county_fips |-> Fips[i], temperature_avg |-> Readings[i]]
           ELSE [county_fips |-> Fips[n - i + 1],
                 temperature_avg |-> Normals[n - i + 1]]]

\* what the awaited database query can do: report an error, give no rows
\* (null or empty), give rows, or reject
QueryAnswers ==
    {[kind |-> "error"], [kind |-> "null"], [kind |-> "rejects"]}
    \cup {[kind |-> "rows", rows |-> CountyRows(n)] : n \in 0..MaxCounties}
    \cup {[kind |-> "rows", rows |-> ClimateRows(t, n)] :
             t \in {"climate_data", "climate_baselines"}, n \in 1..MaxCounties}

MapRequests ==
    {[layer |-> l, year |-> y, cropType |-> c, date |-> d] :
        l \in MapLayers \cup {Absent, "", "wind"},
        y \in {Absent, "", "2000", "abc"},
        c \in {Absent, "corn"},
        d \in {Absent, "2024-07-01"}}

\* lines 38-125: the record generated for one county, as the response body
\* carries it (the pseudo-random readings are not modelled, only whose they
\* are and of which date; the fips of a row that has none is undefined and
\* left out of the JSON)
HistoricalRecord(layer, year, cropType, county) ==
    (IF "fips" \in DOMAIN county THEN [fips |-> county.fips] ELSE <<>>)
    @@ (IF layer = "crop_risk"
        THEN [of |-> layer, date |-> <<year, "-07-01">>,
              crop_type |-> IF Truthy(cropType) THEN cropType ELSE "corn"]
        ELSE IF layer = "precipitation_30day"
        THEN [of |-> layer, latest_date |-> <<year, "-07-01">>]
        ELSE IF layer \in MapLayers
        THEN [of |-> layer, date |-> <<year, "-07-01">>]
        ELSE <<>>)

\* getHistoricalMapData (lines 15-126) once the counties query has settled
getHistoricalMapData(layer, year, cropType, answer) ==
    IF answer.kind = "error" THEN <<>>
    ELSE IF answer.kind = "null" \/ answer.rows = <<>> THEN <<>>
    ELSE [i \in 1..Len(answer.rows) |->
             HistoricalRecord(layer, year, cropType, answer.rows[i])]

\* the query wrappers of lib/api/climate-data (part_001:87-101): [] on an
\* error, data || [] otherwise
CurrentData(answer) ==
    IF answer.kind = "error" \/ answer.kind = "null" THEN <<>> ELSE answer.rows

\* getAllTemperatureAnomalies (part_001:139-176) once both of its queries
\* have settled, as the response body carries it: [] on either error (the
\* second query is not made after the first one's error), [] when there is
\* no climate data, else one record per climate_data row. A field the row
\* lacks is undefined: county_fips and current_avg are then left out of the
\* JSON, and the anomaly, NaN, is written as null. baselineMap holds the
\* last baseline of each county; a missing or zero baseline counts as 0.
getAllTemperatureAnomalies(climate, baselines) ==
    LET Key(row) ==
            IF "county_fips" \in DOMAIN row THEN row.county_fips ELSE Absent
        base == IF baselines.kind = "rows" THEN baselines.rows ELSE <<>>
        Get(key) ==
            LET found == {i \in 1..Len(base) : Key(base[i]) = key}
                last == CHOOSE i \in found : \A j \in found : j <= i
            IN IF found = {} \/ "temperature_avg" \notin DOMAIN base[last]
               THEN 0
               ELSE base[last].temperature_avg
        Anomaly(cd) ==
            (IF "county_fips" \in DOMAIN cd
             THEN [county_fips |-> cd.county_fips] ELSE <<>>)
            @@ (IF "temperature_avg" \in DOMAIN cd
                THEN [current_avg |-> cd.temperature_avg,
                      anomaly |-> cd.temperature_avg - Get(Key(cd))]
                ELSE [anomaly |-> Null])
            @@ [baseline_avg |-> Get(Key(cd))]
    IN IF climate.kind = "error" \/ baselines.kind = "error" THEN <<>>
       ELSE IF climate.kind = "null" THEN <<>>
       ELSE [i \in 1..Len(climate.rows) |-> Anomaly(climate.rows[i])]

\* line 133: the date parameter, or today's date,
\* new Date().toISOString().split('T')[0]
MapDate(req) == IF Truthy(req.date) THEN req.date ELSE "2025-01-15"

InvalidLayerResponse == JsonResponse(400, [error |-> "Invalid layer type"])
CropTypeRequiredResponse ==
    JsonResponse(400, [error |-> "cropType parameter required for crop_risk layer"])
MapFailureResponse == JsonResponse(500, [error |-> "Failed to fetch map data"])

\* lines 180-184
MapSuccess(req, data) ==
    JsonResponse(200, [layer |-> req.layer,
                       date |-> IF Truthy(req.year) THEN <<req.year, "-07-01">>
                                ELSE <<MapDate(req)>>,
                       data |-> data])

\* the handler up to its first await, or to its return (lines 128-177)
MapGETEnter(req) ==
    /\ mapRoute.pc \in {"idle", "done"}
    /\ mapRoute' =
          IF Truthy(req.year)     \* line 139: a historical year is given
          THEN [pc |-> "await:historical", request |-> req]
          ELSE IF req.layer = "crop_risk" /\ ~Truthy(req.cropType)
          THEN [pc |-> "done", request |-> req, response |-> CropTypeRequiredResponse]
          ELSE IF req.layer \in MapLayers
          THEN [pc |-> "await:current", request |-> req]
          ELSE [pc |-> "done", request |-> req, response |-> InvalidLayerResponse]
    /\ UNCHANGED <<now, rateLimitStore, calls, pc, request, rateLimitResult,
                   soundingFetch, heatFetch, sounding, dataSource, heatwaveData,
                   response, limiterVars, trend, countyMap, radar>>

\* the database answers the query the handler awaits, and the handler runs
\* to its return (lines 141-191), or, for the temperature anomalies of the
\* current date, to the second query of getAllTemperatureAnomalies
\* (part_001:141-156), which is made unless the first one reported an error
MapGETResume(answer) ==
    /\ mapRoute.pc \in {"await:historical", "await:current"}
    /\ LET req == mapRoute.request
       IN mapRoute' =
            IF /\ mapRoute.pc = "await:current"
               /\ req.layer = "temperature_anomaly"
               /\ answer.kind \in {"null", "rows"}
            THEN [pc |-> "await:baselines", request |-> req, answer |-> answer]
            ELSE
            [pc |-> "done", request |-> req, answer |-> answer,
             response |->
                IF answer.kind = "rejects" THEN MapFailureResponse
                ELSE IF mapRoute.pc = "await:historical"
                THEN MapSuccess(req, getHistoricalMapData(
                         req.layer, ParseInt(req.year), req.cropType, answer))
                ELSE IF req.layer = "temperature_anomaly"
                THEN MapSuccess(req, getAllTemperatureAnomalies(answer, answer))
                ELSE MapSuccess(req, CurrentData(answer))]
    /\ UNCHANGED <<now, rateLimitStore, calls, pc, request, rateLimitResult,
                   soundingFetch, heatFetch, sounding, dataSource, heatwaveData,
                   response, limiterVars, trend, countyMap, radar>>

\* the database answers the climate_baselines query, and the handler runs to
\* its return (part_001:153-175, route.ts 180-191)
MapGETResumeBaselines(answer) ==
    /\ mapRoute.pc = "await:baselines"
    /\ LET req == mapRoute.request
       IN mapRoute' =
            [pc |-> "done", request |-> req, answer |-> mapRoute.answer,
             baselines |-> answer,
             response |->
                IF answer.kind = "rejects" THEN MapFailureResponse
                ELSE MapSuccess(req, getAllTemperatureAnomalies(
                                         mapRoute.answer, answer))]
    /\ UNCHANGED <<now, rateLimitStore, calls, pc, request, rateLimitResult,
                   soundingFetch, heatFetch, sounding, dataSource, heatwaveData,
                   response, limiterVars, trend, countyMap, radar>>

MapInit ==
    /\ now = 0
    /\ rateLimitStore = <<>>
    /\ calls = 0
    /\ pc = "idle"
    /\ request = NullValue
    /\ rateLimitResult = NullValue
    /\ soundingFetch = Idle
    /\ heatFetch = Idle
    /\ sounding = Undefined
    /\ dataSource = Undefined
    /\ heatwaveData = Undefined
    /\ response = NullValue
    /\ limiterConfig = StandardPreset
    /\ history = <<>>
    /\ shadow = NoShadow
    /\ trend = NullValue
    /\ mapRoute = [pc |-> "idle"]
    /\ countyMap = NullValue
    /\ radar = NullValue

MapNext ==
    \/ \E req \in MapRequests : MapGETEnter(req)
    \/ \E answer \in QueryAnswers : MapGETResume(answer)
    \/ \E answer \in QueryAnswers : MapGETResumeBaselines(answer)

MapSpec == MapInit /\ [][MapNext]_vars

(***************************************************************************)
(* CountyMapSpec: the CountyMap component (components/Map/CountyMap.tsx).  *)
(* countyMap holds the props, mapRef, the GeoJSON layers on the map held   *)
(* by mapRef, the loading and error state, and the loadMapData calls, each *)
(* with the layer and cropType of the render that started it and the await *)
(* it is suspended at.                                                     *)
(***************************************************************************)
MaxSelections == 3

\* the layers and crop types the parent selects among
SelectableLayers == {"drought", "crop_risk"}
SelectableCropTypes == {Absent, "corn"}

\* how an awaited fetch() or response.json() ends
FetchOutcomes == {"ok", "notOk", "rejected"}
JsonOutcomes == {"ok", "rejected"}

\* params of the /api/map-data request (lines 60-63)
MapDataParams(layer, cropType) ==
    [layer |-> layer,
     cropType |-> IF Truthy(cropType) /\ layer = "crop_risk" THEN cropType ELSE Absent]

\* /api/map-data answers 400 to crop_risk without a crop type (route.ts)
MapDataCanBeOk(params) == ~(params.layer = "crop_risk" /\ ~Truthy(params.cropType))

\* loadMapData up to its first await (lines 54-65): the call is suspended
\* at fetch(`/api/map-data?${params}`)
loadMapDataStart(cm, layer, cropType) ==
    [cm EXCEPT !.loading = TRUE, !.error = Absent,
               !.loads = Append(@, [layer |-> layer, cropType |-> cropType,
                                    at |-> "fetch:map-data"])]

\* the effect of lines 25-45: a map is made when mapRef holds none, and
\* loadMapData is called
effectRuns(cm, layer, cropType) ==
    LET withMap == IF cm.mapRef = 0
                   THEN [cm EXCEPT !.mapRef = cm.mapsMade + 1,
                                   !.mapsMade = cm.mapsMade + 1,
                                   !.geoJson = {}]
                   ELSE cm
    IN loadMapDataStart([withMap EXCEPT !.layer = layer, !.cropType = cropType],
                        layer, cropType)

\* the cleanup of lines 46-51: the map is removed and mapRef set to null
effectCleanup(cm) ==
    IF cm.mapRef # 0 THEN [cm EXCEPT !.mapRef = 0, !.geoJson = {}] ELSE cm

\* the catch block of lines 210-214
loadMapDataFails(cm, id, message) ==
    [cm EXCEPT !.error = message, !.loading = FALSE, !.loads[id].at = "returned"]

\* lines 83-209: the GeoJSON layers are taken off the map mapRef holds now
\* and the polygons of this call, coloured for its layer, are put on it
loadMapDataDraws(cm, id) ==
    LET call == cm.loads[id]
        drawn == IF cm.mapRef # 0
                 THEN [cm EXCEPT !.geoJson =
                          {[map |-> cm.mapRef,
                            params |-> MapDataParams(call.layer, call.cropType)]}]
                 ELSE cm
    IN [drawn EXCEPT !.loading = FALSE, !.loads[id].at = "returned"]

InFlight(cm) == {id \in DOMAIN cm.loads : cm.loads[id].at # "returned"}

\* the component is mounted with its first props
CountyMapMount(layer, cropType) ==
    /\ ~countyMap.mounted /\ countyMap.selections = 0
    /\ countyMap' = effectRuns([countyMap EXCEPT !.mounted = TRUE, !.selections = 1],
                               layer, cropType)
    /\ UNCHANGED <<serverVars, radar>>

\* the parent renders the component with another layer or cropType: the
\* cleanup of the previous effect runs, then the effect
CountyMapPropsChange(layer, cropType) ==
    /\ countyMap.mounted
    /\ countyMap.selections < MaxSelections
    /\ <<layer, cropType>> # <<countyMap.layer, countyMap.cropType>>
    /\ countyMap' = effectRuns(effectCleanup(
                          [countyMap EXCEPT !.selections = @ + 1]), layer, cropType)
    /\ UNCHANGED <<serverVars, radar>>

\* the component is taken off the page
CountyMapUnmount ==
    /\ countyMap.mounted
    /\ countyMap' = effectCleanup([countyMap EXCEPT !.mounted = FALSE])
    /\ UNCHANGED <<serverVars, radar>>

\* an awaited fetch settles: lines 65-68 and 73-76
loadMapDataFetchSettles(id, outcome) ==
    /\ id \in DOMAIN countyMap.loads
    /\ countyMap.loads[id].at \in {"fetch:map-data", "fetch:counties"}
    /\ LET call == countyMap.loads[id]
           mapData == call.at = "fetch:map-data"
       IN /\ (mapData /\ outcome = "ok") =>
                 MapDataCanBeOk(MapDataParams(call.layer, call.cropType))
          /\ countyMap' =
                IF outcome = "rejected"
                THEN loadMapDataFails(countyMap, id, "Failed to fetch")
                ELSE IF outcome = "notOk"
                THEN loadMapDataFails(countyMap, id,
                         IF mapData THEN "Failed to fetch map data"
                         ELSE "Failed to fetch counties")
                ELSE [countyMap EXCEPT !.loads[id].at =
                         IF mapData THEN "json:map-data" ELSE "json:counties"]
    /\ UNCHANGED <<serverVars, radar>>

\* an awaited response.json() settles: lines 70-73 and 78-209
loadMapDataJsonSettles(id, outcome) ==
    /\ id \in DOMAIN countyMap.loads
    /\ countyMap.loads[id].at \in {"json:map-data", "json:counties"}
    /\ countyMap' =
          IF outcome = "rejected"
          THEN loadMapDataFails(countyMap, id, "Unexpected token")
          ELSE IF countyMap.loads[id].at = "json:map-data"
          THEN [countyMap EXCEPT !.loads[id].at = "fetch:counties"]
          ELSE loadMapDataDraws(countyMap, id)
    /\ UNCHANGED <<serverVars, radar>>

CountyMapInit ==
    /\ now = 0
    /\ rateLimitStore = <<>>
    /\ calls = 0
    /\ pc = "idle"
    /\ request = NullValue
    /\ rateLimitResult = NullValue
    /\ soundingFetch = Idle
    /\ heatFetch = Idle
    /\ sounding = Undefined
    /\ dataSource = Undefined
    /\ heatwaveData = Undefined
    /\ response = NullValue
    /\ limiterConfig = StandardPreset
    /\ history = <<>>
    /\ shadow = NoShadow
    /\ trend = NullValue
    /\ mapRoute = NullValue
    /\ countyMap = [mounted |-> FALSE, selections |-> 0,
                    layer |-> Absent, cropType |-> Absent,
                    mapRef |-> 0, mapsMade |-> 0, geoJson |-> {},
                    loading |-> TRUE, error |-> Absent, loads |-> <<>>]
    /\ radar = NullValue

CountyMapNext ==
    \/ \E layer \in SelectableLayers, cropType \in SelectableCropTypes :
           CountyMapMount(layer, cropType)
    \/ \E layer \in SelectableLayers, cropType \in SelectableCropTypes :
           CountyMapPropsChange(layer, cropType)
    \/ CountyMapUnmount
    \/ \E id \in 1..MaxSelections, outcome \in FetchOutcomes :
           loadMapDataFetchSettles(id, outcome)
    \/ \E id \in 1..MaxSelections, outcome \in JsonOutcomes :
           loadMapDataJsonSettles(id, outcome)

CountyMapSpec == CountyMapInit /\ [][CountyMapNext]_vars

(***************************************************************************)
(* RadarSpec: the RadarOverlay component (components/Map/RadarOverlay.tsx).*)
(* radar holds the props, the two refs, the tile layers on the map, and    *)
(* the updateRadar calls, each with the `map` and `enabled` of the render  *)
(* whose effect made it and the await it is suspended at. The map prop is  *)
(* null (0) or the one map of the page (1).                                *)
(***************************************************************************)
MaxRenders == 3
MaxUpdates == 3

MapProps == {0, 1}
RadarFetchOutcomes == {"ok", "rejected"}
RadarJsonOutcomes == {"frames", "noFrames", "rejected"}

\* updateRadar up to its first await or its early return (lines 35-49), as
\* made by an effect that saw `map` and `enabled`
updateRadar(r, map, enabled) ==
    LET cleared == IF r.radarLayerRef # 0
                   THEN [r EXCEPT !.onMap = @ \ {r.radarLayerRef},
                                  !.radarLayerRef = 0]
                   ELSE r
    IN IF ~enabled THEN cleared
       ELSE [cleared EXCEPT !.updates = Append(@, [map |-> map, enabled |-> enabled,
                                                    at |-> "fetch"])]

\* the effect of lines 32-100
radarEffectRuns(r, map, enabled) ==
    IF map = 0 THEN [r EXCEPT !.cleanup = FALSE]
    ELSE LET updated == updateRadar(r, map, enabled)
         IN [updated EXCEPT !.cleanup = TRUE,
                            !.updateIntervalRef =
                                IF enabled THEN [map |-> map, enabled |-> enabled]
                                ELSE @]

\* the cleanup the effect returned (lines 102-112), when it returned one
radarEffectCleanup(r) ==
    IF ~r.cleanup THEN r
    ELSE LET cleared == IF r.radarLayerRef # 0
                        THEN [r EXCEPT !.onMap = @ \ {r.radarLayerRef},
                                       !.radarLayerRef = 0]
                        ELSE r
         IN [cleared EXCEPT !.updateIntervalRef = NullValue, !.cleanup = FALSE]

\* lines 57-88: a tile layer is made, put in radarLayerRef and on the map
updateRadarAddsLayer(r, id) ==
    [r EXCEPT !.radarLayerRef = r.layersMade + 1,
              !.layersMade = r.layersMade + 1,
              !.onMap = @ \cup {r.layersMade + 1},
              !.updates[id].at = "returned"]

UpdatesInFlight(r) == {id \in DOMAIN r.updates : r.updates[id].at # "returned"}

\* the component is mounted
RadarMount(map, enabled) ==
    /\ ~radar.mounted /\ radar.renders = 0
    /\ radar' = radarEffectRuns([radar EXCEPT !.mounted = TRUE, !.renders = 1,
                                              !.map = map, !.enabled = enabled],
                                map, enabled)
    /\ UNCHANGED <<serverVars, countyMap>>

\* the parent renders the component with another map or enabled: the
\* cleanup of the previous effect runs, then the effect
RadarPropsChange(map, enabled) ==
    /\ radar.mounted
    /\ radar.renders < MaxRenders
    /\ <<map, enabled>> # <<radar.map, radar.enabled>>
    /\ (enabled /\ map # 0) => Len(radar.updates) < MaxUpdates
    /\ radar' = radarEffectRuns(radarEffectCleanup(
                     [radar EXCEPT !.renders = @ + 1, !.map = map,
                                   !.enabled = enabled]), map, enabled)
    /\ UNCHANGED <<serverVars, countyMap>>

\* the component is taken off the page
RadarUnmount ==
    /\ radar.mounted
    /\ radar' = radarEffectCleanup([radar EXCEPT !.mounted = FALSE])
    /\ UNCHANGED <<serverVars, countyMap>>

\* the timer of line 99 fires: updateRadar of the effect that set it
RadarIntervalFires ==
    /\ radar.updateIntervalRef # NullValue
    /\ Len(radar.updates) < MaxUpdates
    /\ radar' = updateRadar(radar, radar.updateIntervalRef.map,
                            radar.updateIntervalRef.enabled)
    /\ UNCHANGED <<serverVars, countyMap>>

\* the awaited fetch of line 49 settles
updateRadarFetchSettles(id, outcome) ==
    /\ id \in DOMAIN radar.updates
    /\ radar.updates[id].at = "fetch"
    /\ radar' = [radar EXCEPT !.updates[id].at =
                     IF outcome = "ok" THEN "json" ELSE "returned"]
    /\ UNCHANGED <<serverVars, countyMap>>

\* the awaited response.json() of line 50 settles, and updateRadar runs to
\* its end (lines 52-91)
updateRadarJsonSettles(id, outcome) ==
    /\ id \in DOMAIN radar.updates
    /\ radar.updates[id].at = "json"
    /\ radar' = IF outcome = "frames" THEN updateRadarAddsLayer(radar, id)
                ELSE [radar EXCEPT !.updates[id].at = "returned"]
    /\ UNCHANGED <<serverVars, countyMap>>

RadarInit ==
    /\ now = 0
    /\ rateLimitStore = <<>>
    /\ calls = 0
    /\ pc = "idle"
    /\ request = NullValue
    /\ rateLimitResult = NullValue
    /\ soundingFetch = Idle
    /\ heatFetch = Idle
    /\ sounding = Undefined
    /\ dataSource = Undefined
    /\ heatwaveData = Undefined
    /\ response = NullValue
    /\ limiterConfig = StandardPreset
    /\ history = <<>>
    /\ shadow = NoShadow
    /\ trend = NullValue
    /\ mapRoute = NullValue
    /\ countyMap = NullValue
    /\ radar = [mounted |-> FALSE, renders |-> 0, map |-> 0, enabled |-> FALSE,
                radarLayerRef |-> 0, updateIntervalRef |-> NullValue,
                cleanup |-> FALSE, layersMade |-> 0, onMap |-> {},
                updates |-> <<>>]

RadarNext ==
    \/ \E map \in MapProps, enabled \in BOOLEAN : RadarMount(map, enabled)
    \/ \E map \in MapProps, enabled \in BOOLEAN : RadarPropsChange(map, enabled)
    \/ RadarUnmount
    \/ RadarIntervalFires
    \/ \E id \in 1..MaxUpdates, outcome \in RadarFetchOutcomes :
           updateRadarFetchSettles(id, outcome)
    \/ \E id \in 1..MaxUpdates, outcome \in RadarJsonOutcomes :
           updateRadarJsonSettles(id, outcome)

RadarSpec == RadarInit /\ [][RadarNext]_vars

(***************************************************************************)
(* Claims about the handlers, checked under Spec (C4 under LiveSpec)       *)
(***************************************************************************)
GetReturned == pc = "done" /\ request.method = "GET"
\* a GET that was let through by the limiter and tried real data
RealDataGetReturned ==
    GetReturned /\ rateLimitResult.isAllowed /\ WantsRealData(request)
Successful == response.status = 200

\* the upstream sounding call gave no profile with at least one level:
\* it failed, answered non-OK, or answered without a usable profile
SoundingUnavailable ==
    LET r == soundingFetch.resp
    IN ~(/\ r.kind = "http" /\ r.ok /\ r.json
         /\ "profiles" \in DOMAIN r.data
         /\ r.data.profiles # <<>>
         /\ "profile" \in DOMAIN r.data.profiles[1]
         /\ r.data.profiles[1].profile # <<>>)

\* C1 (as claimed): a successful GET result carries source =
\* "synthetic-fallback" when the sounding fetch was unavailable and source =
\* "observed" when it succeeded.
C1_SourceTagAsClaimed ==
    (RealDataGetReturned /\ Successful) =>
        /\ "source" \in DOMAIN response.body
        /\ response.body.source =
               IF SoundingUnavailable THEN "synthetic-fallback" ELSE "observed"

\* C1 (amended): a successful GET result carries dataSource = "sample (NOAA
\* data unavailable)" with the sample sounding when the sounding fetch was
\* unavailable, and dataSource = "NOAA HRRR Model" with the fetched sounding
\* when it succeeded.
C1_DataSourceLabelsFallback ==
    (RealDataGetReturned /\ Successful) =>
        IF SoundingUnavailable
        THEN /\ response.body.dataSource = "sample (NOAA data unavailable)"
             /\ response.body.sounding = generateSampleSounding
        ELSE /\ response.body.dataSource = "NOAA HRRR Model"
             /\ response.body.sounding =
                    SoundingFromProfile(soundingFetch.resp.data.profiles[1].profile)

\* C1 witness: a successful GET whose sounding fetch answered non-OK.
C1_Witness ==
    /\ RealDataGetReturned /\ Successful
    /\ soundingFetch.resp = HttpError
    /\ response.body.dataSource = "sample (NOAA data unavailable)"

\* C2 (as claimed): no indices result is computed from the generated sample
\* sounding together with really fetched heat metrics.
C2_NeverMixesSampleAndObserved ==
    (GetReturned /\ Successful) =>
        ~(/\ response.body.indices.sounding = generateSampleSounding
          /\ response.body.indices.heatwave # Undefined)

\* C3 (as claimed): every successful result, of GET or of POST, contains the
\* provenance field.
C3_ProvenanceAlwaysPresent ==
    (pc = "done" /\ Successful) =>
        ("dataSource" \in DOMAIN response.body \/ "source" \in DOMAIN response.body)

\* C4 (as claimed): a GET that waits for its two upstream fetches eventually
\* returns a response, whatever the upstream services do.
C4_GetAlwaysReturns == (pc = "get:await") ~> (pc = "done")

\* C5: a failed heatwave fetch neither makes a fetched sounding fall back to
\* the sample nor makes the request fail (it fails for a malformed sounding
\* alone), and a failed sounding fetch keeps the heat metrics that were
\* fetched; both promises always resolve.
C5_FetchesFailIndependently ==
    RealDataGetReturned =>
        LET gotSounding == soundingFetch.result # NullValue
            gotHeat == heatFetch.result # NullValue
        IN /\ (~gotHeat /\ gotSounding) =>
                  (sounding = soundingFetch.result /\ dataSource = "NOAA HRRR Model")
           /\ ~gotHeat => (Successful <=> ValidSounding(sounding))
           /\ (gotHeat /\ ~gotSounding) =>
                  /\ heatwaveData = heatFetch.result
                  /\ Successful
                  /\ response.body.indices.heatwave = heatFetch.result

\* C5 witness: a successful GET on a fetched sounding whose heatwave fetch
\* failed.
C5_Witness ==
    /\ RealDataGetReturned /\ Successful
    /\ heatFetch.resp = NetworkError
    /\ dataSource = "NOAA HRRR Model"

\* C6: while the handler waits, both fetches have been started; and the
\* indices of a real-data GET are computed only once both have completed.
C6_BothStartedThenJoined ==
    /\ pc = "get:await" =>
           (soundingFetch.state # "idle" /\ heatFetch.state # "idle")
    /\ RealDataGetReturned =>
           (soundingFetch.state = "settled" /\ heatFetch.state = "settled")

\* C6 witness: the handler still waits for the sounding after the heatwave
\* fetch has completed.
C6_Witness ==
    /\ pc = "get:await"
    /\ soundingFetch.state = "pending"
    /\ heatFetch.state = "settled"

(***************************************************************************)
(* Claims about the heatwave detection, checked under HeatSpec             *)
(***************************************************************************)
HeatSettled == heatFetch.state = "settled"
\* the chronological series of daily maxima the detection ran on
DailySeries ==
    LET raw == heatFetch.resp.data.daily.temperature_2m_max
        NotNull(t) == t # Null
    IN SelectSeq(raw, NotNull)
\* the days strictly above the threshold thr
HotDays(t, thr) == {i \in 1..Len(t) : t[i] > thr}
\* first days of the maximal runs of hot days that last 3 days or more
LongRunStarts(t, thr) ==
    {i \in 1..Len(t) :
        /\ t[i] > thr
        /\ (i = 1 \/ t[i - 1] <= thr)
        /\ i + 2 <= Len(t) /\ t[i + 1] > thr /\ t[i + 2] > thr}

\* C7: the heat-wave count is the number of maximal runs of at least 3
\* consecutive days strictly above the threshold.
C7_HeatWavesCountMaximalRuns ==
    (HeatSettled /\ heatFetch.result # NullValue) =>
        LET t == DailySeries
            thr == Temp95(t)
        IN heatFetch.result.heatWaves = Cardinality(LongRunStarts(t, thr))

\* C7 witness: a series with exactly one run of 5 hot days, counted once.
C7_Witness ==
    /\ HeatSettled /\ heatFetch.result # NullValue
    /\ heatFetch.result.heatWaves = 1
    /\ LET t == DailySeries
           thr == Temp95(t)
           hot == HotDays(t, thr)
       IN /\ Cardinality(hot) = 5
          /\ \E i \in hot : hot = i..(i + 4)

\* C8: the reported streak is the length of the longest suffix of days
\* strictly above the threshold (0 when the last day is not above it).
C8_StreakIsOpenRun ==
    (HeatSettled /\ heatFetch.result # NullValue) =>
        LET t == DailySeries
            thr == Temp95(t)
        IN heatFetch.result.consecutiveHotDays =
               Cardinality({i \in 1..Len(t) : \A j \in i..Len(t) : t[j] > thr})

\* C8 witness: a series that ends in a run of 2 hot days after an earlier,
\* closed run.
C8_Witness ==
    /\ HeatSettled /\ heatFetch.result # NullValue
    /\ heatFetch.result.consecutiveHotDays = 2
    /\ heatFetch.result.extremeHeatDays > 2

\* C9: a day equal to the threshold is not an extreme heat day, and a
\* constant series has no extreme day, no heat wave and no streak.
C9_TiesAreNotAbove ==
    (HeatSettled /\ heatFetch.result # NullValue) =>
        LET t == DailySeries
            thr == Temp95(t)
            r == heatFetch.result
            ties == {i \in 1..Len(t) : t[i] = thr}
            below == {i \in 1..Len(t) : t[i] < thr}
        IN /\ r.extremeHeatDays + Cardinality(ties) + Cardinality(below) = Len(t)
           /\ (\A i \in 1..Len(t) : t[i] = t[1]) =>
                  (r.extremeHeatDays = 0 /\ r.heatWaves = 0 /\ r.consecutiveHotDays = 0)

\* C9 witness: a constant series of at least 3 days, with no extreme day.
C9_Witness ==
    /\ HeatSettled /\ heatFetch.result # NullValue
    /\ heatFetch.result.extremeHeatDays = 0
    /\ LET t == DailySeries
       IN Len(t) >= 3 /\ \A i \in 1..Len(t) : t[i] = t[1]

\* C10 (as claimed): a series with no value left after the nulls are
\* filtered out yields all-zero metrics, not a missing result.
C10_EmptySeriesGivesZeroMetrics ==
    (HeatSettled /\ Len(DailySeries) = 0) =>
        /\ heatFetch.result # NullValue
        /\ heatFetch.result.extremeHeatDays = 0
        /\ heatFetch.result.heatWaves = 0
        /\ heatFetch.result.consecutiveHotDays = 0

\* C23: a result for a series of n daily maxima reports at most
\* n - 1 - floor(0.95 n) extreme heat days; for n up to 20 it reports none,
\* and for n up to 60 it reports no heat wave.
C23_FewDaysCanBeExtreme ==
    (HeatSettled /\ heatFetch.result # NullValue) =>
        LET n == Len(DailySeries)
        IN /\ heatFetch.result.extremeHeatDays <= n - 1 - ((95 * n) \div 100)
           /\ n <= 20 => heatFetch.result.extremeHeatDays = 0
           /\ n <= 60 => heatFetch.result.heatWaves = 0

\* a series of two months or less reached the bound with 2 extreme days
C23_Witness ==
    /\ HeatSettled /\ heatFetch.result # NullValue
    /\ LET n == Len(DailySeries)
       IN /\ n <= 60
          /\ heatFetch.result.extremeHeatDays = 2
          /\ n - 1 - ((95 * n) \div 100) = 2
          /\ heatFetch.result.heatWaves = 0

\* C20: a GET or POST whose rate-limit check said isAllowed = false has
\* returned 429 and has started no upstream fetch, parsed no body and
\* computed no indices; fetches are started only for allowed requests.
C20_BlockedRequestDoesNothingElse ==
    (rateLimitResult # NullValue /\ ~rateLimitResult.isAllowed) =>
        /\ pc = "done"
        /\ response.status = 429
        /\ soundingFetch = Idle /\ heatFetch = Idle
        /\ sounding = Undefined /\ heatwaveData = Undefined

\* a POST with a body was refused by the limiter
C20_Witness ==
    /\ rateLimitResult # NullValue /\ ~rateLimitResult.isAllowed
    /\ request.method = "POST" /\ request.body.json
    /\ response.status = 429

\* the request asks for sample data, or gives no latitude or no longitude
SampleAsked(req) ==
    \/ req.url.sample = "true"
    \/ req.url.lat \in {Absent, ""}
    \/ req.url.lon \in {Absent, ""}

\* C22: an allowed GET with sample=true, or without lat or lon, starts no
\* upstream fetch, analyses the generated sample sounding with no heat
\* metrics and reports "sample"; a fetch is started only for a GET with
\* lat and lon and without sample=true.
C22_SamplePathFetchesNothing ==
    (request # NullValue /\ request.method = "GET" /\ rateLimitResult.isAllowed) =>
        IF SampleAsked(request)
        THEN /\ pc = "done"
             /\ soundingFetch = Idle /\ heatFetch = Idle
             /\ sounding = generateSampleSounding
             /\ heatwaveData = NullValue
             /\ response.status = 200
             /\ response.body.dataSource = "sample"
             /\ response.body.sounding = generateSampleSounding
             /\ response.body.indices.heatwave = Undefined
        ELSE soundingFetch # Idle /\ heatFetch # Idle

\* coordinates were given together with sample=true
C22_Witness ==
    /\ request # NullValue /\ request.method = "GET" /\ rateLimitResult.isAllowed
    /\ Truthy(request.url.lat) /\ Truthy(request.url.lon)
    /\ request.url.sample = "true"
    /\ pc = "done" /\ response.body.dataSource = "sample"

(***************************************************************************)
(* Malformed soundings                                                     *)
(***************************************************************************)
\* the six arrays are there, but not of one length or of fewer than 2 levels
Malformed(s) == SoundingArrays \subseteq DOMAIN s /\ ~ValidSounding(s)

\* the only response of the two handlers that reports a bad input to the
\* caller (part_008:296-301)
ValidationErrorSurfaced == response # NullValue /\ response.status = 400

\* C11: a handler that has been given a sounding whose six arrays differ in
\* length, or have fewer than 2 levels, answers with a validation error;
\* this for a sounding posted and for one built from an upstream profile.
C11_MalformedSoundingIsRejectedAsInvalid ==
    (pc = "done" /\ Malformed(sounding)) => ValidationErrorSurfaced

(***************************************************************************)
(* The limit of the GET endpoint, checked under Spec                       *)
(***************************************************************************)
\* the keys in the store under which GET requests of `client` with a query
\* string are counted, and whose window has not ended
LiveGetKeysOf(client) ==
    {k \in {RateLimitKey(q) : q \in {r \in GetRequests :
                                        getClientIdentifier(r.headers) = client}} :
        /\ k \in DOMAIN rateLimitStore
        /\ rateLimitStore[k].resetTime >= now}

\* the requests counted under key k that were allowed
AllowedUnder(k) ==
    IF rateLimitStore[k].count <= maxRequests
    THEN rateLimitStore[k].count ELSE maxRequests

RECURSIVE AllowedTotal(_)
AllowedTotal(keys) ==
    IF keys = {} THEN 0
    ELSE LET k == CHOOSE x \in keys : TRUE
         IN AllowedUnder(k) + AllowedTotal(keys \ {k})

\* C13: while its windows run, one client has been allowed at most 60 GET
\* requests to /api/severe-weather, whatever lat, lon and sample it sent.
C13_SixtyPerClientWhateverTheQuery ==
    \A h \in HeaderChoices :
        AllowedTotal(LiveGetKeysOf(getClientIdentifier(h))) <= maxRequests

(***************************************************************************)
(* Claims about the limiter, checked under RateSpec                        *)
(***************************************************************************)
\* The fixed windows of a key, told from the times of its calls alone: the
\* first call of a key opens a window, and a call later than windowMs after
\* the opening of the window of the key's previous call opens the next one.
PrevCall(i) ==
    LET earlier == {j \in 1..(i - 1) : history[j].key = history[i].key}
    IN IF earlier = {} THEN 0 ELSE CHOOSE j \in earlier : \A k \in earlier : k <= j

RECURSIVE WindowOpenedAt(_)
WindowOpenedAt(i) ==
    LET p == PrevCall(i)
    IN IF p = 0 THEN history[i].time
       ELSE LET opened == WindowOpenedAt(p)
            IN IF history[i].time > opened + limiterConfig.windowMs
               THEN history[i].time ELSE opened

\* the position of call i among the calls of its key in its window
RankInWindow(i) ==
    Cardinality({j \in 1..i : /\ history[j].key = history[i].key
                              /\ WindowOpenedAt(j) = WindowOpenedAt(i)})

\* C12: of the calls made for a key in one window, the first maxRequests
\* return isAllowed = true and every further one returns isAllowed = false
\* together with a message (the configured one, or the default).
C12_FirstMaxRequestsAllowedThenBlocked ==
    \A i \in DOMAIN history :
        LET r == history[i].result
        IN /\ r.isAllowed <=> RankInWindow(i) <= limiterConfig.maxRequests
           /\ ~r.isAllowed =>
                 r.message = IF Truthy(limiterConfig.message)
                             THEN limiterConfig.message ELSE "Rate limit exceeded"

\* a window was used up and the next call in it was refused
C12_Witness ==
    \E i \in DOMAIN history :
        /\ RankInWindow(i) = limiterConfig.maxRequests + 1
        /\ ~history[i].result.isAllowed
        /\ \E j \in 1..(i - 1) :
              /\ history[j].key = history[i].key
              /\ RankInWindow(j) = limiterConfig.maxRequests
              /\ history[j].result.isAllowed

\* C14: every result has remaining = max(0, maxRequests - n), n being the
\* number of calls made so far for the key in its window: never negative,
\* maxRequests - 1 on the first call of a window (59 with the standard
\* preset), one less after each allowed call, and 0 on every refused call.
C14_RemainingIsClampedBudget ==
    \A i \in DOMAIN history :
        LET r == history[i].result
            n == RankInWindow(i)
            p == PrevCall(i)
            left == limiterConfig.maxRequests - n
        IN /\ r.remaining = IF left > 0 THEN left ELSE 0
           /\ r.remaining >= 0
           /\ n = 1 => r.remaining = limiterConfig.maxRequests - 1
           /\ (n = 1 /\ limiterConfig = StandardPreset) => r.remaining = 59
           /\ (n > 1 /\ r.isAllowed) =>
                 r.remaining = history[p].result.remaining - 1
           /\ ~r.isAllowed => r.remaining = 0

\* a key went on calling after its first refusal
C14_Witness ==
    \E i \in DOMAIN history :
        /\ RankInWindow(i) = limiterConfig.maxRequests + 2
        /\ history[i].result.remaining = 0
        /\ history[PrevCall(i)].result.remaining = 0

\* C15: a firing of the cleanup timer deletes exactly the entries whose
\* resetTime is earlier than the current time and leaves every other entry
\* as it was, and every call of the limiter returns what it returns in the
\* run where the timer never fires (shadow).
C15_CleanupIsInvisible ==
    [][ /\ (calls' = calls /\ now' = now) =>
             /\ DOMAIN rateLimitStore' =
                    {k \in DOMAIN rateLimitStore : rateLimitStore[k].resetTime >= now}
             /\ \A k \in DOMAIN rateLimitStore' : rateLimitStore'[k] = rateLimitStore[k]
        /\ (calls' = calls + 1) => rateLimitResult' = shadow'.result
      ]_vars

\* a key was called again after the timer had deleted its expired window,
\* while the store that is never cleaned still held that window
C15_Witness ==
    /\ history # <<>>
    /\ LET last == history[Len(history)]
       IN /\ \E d \in shadow.deleted : d[1] = last.key /\ d[2] < last.time
          /\ PrevCall(Len(history)) # 0
          /\ rateLimitResult = shadow.result
          /\ DOMAIN shadow.store # DOMAIN rateLimitStore

\* the allowed calls of key k at the times from, from + 1, ..., from + len - 1
AllowedIn(k, from, len) ==
    Cardinality({i \in DOMAIN history : /\ history[i].key = k
                                        /\ history[i].result.isAllowed
                                        /\ history[i].time >= from
                                        /\ history[i].time < from + len})

\* the allowed calls in the fixed window that call i falls in
AllowedInWindowOf(i) ==
    Cardinality({j \in DOMAIN history : /\ history[j].key = history[i].key
                                        /\ WindowOpenedAt(j) = WindowOpenedAt(i)
                                        /\ history[j].result.isAllowed})

\* C18 as stated: for every key, every interval of length windowMs, wherever
\* it begins, holds at most maxRequests allowed calls.
C18_AnyIntervalHoldsAtMostMaxRequests ==
    \A i \in DOMAIN history :
        AllowedIn(history[i].key, history[i].time, limiterConfig.windowMs)
            <= limiterConfig.maxRequests

\* C18, amended: for every key, every fixed window of the limiter holds at
\* most maxRequests allowed calls, and an interval of length windowMs that
\* begins anywhere holds at most 2 * maxRequests - 1.
C18_FixedWindowHoldsAtMostMaxRequests ==
    \A i \in DOMAIN history :
        /\ AllowedInWindowOf(i) <= limiterConfig.maxRequests
        /\ AllowedIn(history[i].key, history[i].time, limiterConfig.windowMs)
              <= 2 * limiterConfig.maxRequests - 1

\* an interval of length windowMs across the end of a window holds more
\* than maxRequests allowed calls of one key
C18_Witness ==
    \E i \in DOMAIN history :
        AllowedIn(history[i].key, history[i].time, limiterConfig.windowMs)
            > limiterConfig.maxRequests

\* C19: when the previous call of a key was refused, its next call is
\* allowed if it comes later than resetTime, opening a window with count 1
\* and resetTime = its time + windowMs; a call exactly at resetTime (or
\* before) is still counted in the old window, and refused.
C19_BlockedKeyReopensAfterResetTime ==
    \A i \in DOMAIN history :
        LET p == PrevCall(i)
        IN (p # 0 /\ ~history[p].result.isAllowed) =>
             IF history[i].time > history[p].result.resetTime
             THEN /\ history[i].result.isAllowed
                  /\ history[i].count = 1
                  /\ history[i].result.resetTime =
                        history[i].time + limiterConfig.windowMs
             ELSE /\ ~history[i].result.isAllowed
                  /\ history[i].count = history[p].count + 1
                  /\ history[i].result.resetTime = history[p].result.resetTime

\* a refused key called at its resetTime, was refused again, called later
\* and was allowed
C19_Witness ==
    \E i \in DOMAIN history :
        LET p == PrevCall(i)
        IN /\ p # 0 /\ PrevCall(p) # 0
           /\ ~history[PrevCall(p)].result.isAllowed
           /\ history[p].time = history[PrevCall(p)].result.resetTime
           /\ ~history[p].result.isAllowed
           /\ history[i].time > history[p].result.resetTime
           /\ history[i].result.isAllowed

\* C24: a call for a key whose window is still running (resetTime not
\* earlier than the time of the call) adds one to that entry's count and
\* leaves its resetTime as it was, whether the call is allowed or refused.
C24_LiveWindowKeepsResetTime ==
    [][ (calls' = calls + 1) =>
          LET k == RateLimitKey(request')
          IN (k \in DOMAIN rateLimitStore /\ rateLimitStore[k].resetTime >= now) =>
               /\ rateLimitStore'[k].resetTime = rateLimitStore[k].resetTime
               /\ rateLimitStore'[k].count = rateLimitStore[k].count + 1
               /\ rateLimitResult'.resetTime = rateLimitStore[k].resetTime
      ]_vars

\* a refused key called again later in the same window, and was given the
\* same resetTime
C24_Witness ==
    \E i \in DOMAIN history :
        LET p == PrevCall(i)
        IN /\ p # 0
           /\ ~history[p].result.isAllowed /\ ~history[i].result.isAllowed
           /\ history[i].time > history[p].time
           /\ history[i].result.resetTime = history[p].result.resetTime
           /\ history[i].key \in DOMAIN rateLimitStore
           /\ rateLimitStore[history[i].key].resetTime = history[p].result.resetTime

\* the client of a request; the stream of a request as C25 words it, the
\* pair of client identifier and URL; and the key the limiter counts it
\* under, the text `${identifier}:${request.url}`
ClientOf(req) == getClientIdentifier(req.headers)
StreamOf(req) == <<ClientOf(req), req.href>>
StreamKey(req) == ClientOf(req) \o ":" \o req.href

\* the calls of the stream with key k among the first n calls, made alone
\* on an empty store
RECURSIVE SoloRun(_, _)
SoloRun(k, n) ==
    IF n = 0 THEN [store |-> <<>>, result |-> NullValue]
    ELSE LET before == SoloRun(k, n - 1)
         IN IF StreamKey(history[n].request) = k
            THEN checkRateLimit(limiterConfig, history[n].request, before.store,
                                history[n].time)
            ELSE before

\* every call got the result it gets when no other key is ever used
SoloResults ==
    \A i \in DOMAIN history :
        LET solo == SoloRun(StreamKey(history[i].request), i).result
        IN /\ history[i].result.isAllowed = solo.isAllowed
           /\ history[i].result.remaining = solo.remaining
           /\ history[i].result.resetTime = solo.resetTime

\* every entry of the store is the one its key has when used alone, and an
\* entry is missing only when the timer could delete it
SoloEntries ==
    /\ DOMAIN rateLimitStore \subseteq
          {StreamKey(history[i].request) : i \in DOMAIN history}
    /\ \A i \in DOMAIN history :
          LET k == StreamKey(history[i].request)
              solo == SoloRun(k, Len(history)).store
          IN IF k \in DOMAIN rateLimitStore
             THEN rateLimitStore[k] = solo[k]
             ELSE solo[k].resetTime < now

\* the calls of the stream s (one client identifier, one URL) among the
\* first n calls, made alone on an empty store
RECURSIVE StreamSoloRun(_, _)
StreamSoloRun(s, n) ==
    IF n = 0 THEN [store |-> <<>>, result |-> NullValue]
    ELSE LET before == StreamSoloRun(s, n - 1)
         IN IF StreamOf(history[n].request) = s
            THEN checkRateLimit(limiterConfig, history[n].request, before.store,
                                history[n].time)
            ELSE before

\* every call got the result it gets when no other stream makes a request
StreamSoloResults ==
    \A i \in DOMAIN history :
        LET solo == StreamSoloRun(StreamOf(history[i].request), i).result
        IN /\ history[i].result.isAllowed = solo.isAllowed
           /\ history[i].result.remaining = solo.remaining
           /\ history[i].result.resetTime = solo.resetTime

\* C25, as stated: two streams that differ in client identifier or in URL
\* have different keys, so the results (isAllowed, remaining, resetTime)
\* returned to one stream are the same whatever requests the other streams
\* make, and no call has created, changed or deleted the entry of a key
\* other than its own.
C25_StreamsAreIsolated == StreamSoloResults /\ SoloEntries

\* C25, amended: the key is the text `${identifier}:${request.url}`; the
\* results (isAllowed, remaining, resetTime) returned for one key text are
\* those of the run in which no other key text is used, and no call has
\* created, changed or deleted the entry of a key text other than its own.
\* Streams that differ in client identifier and in URL but give the same
\* text are one key and are counted together.
C25_KeysAreIsolated == SoloResults /\ SoloEntries

\* a call was refused and a call under another key, at the same instant,
\* allowed; one client has used two URLs; and two requests that differ in
\* client and in URL had the same key, the second counted after the first
C25_Witness ==
    /\ \E i, j \in DOMAIN history :
          /\ i < j /\ StreamKey(history[i].request) # StreamKey(history[j].request)
          /\ history[i].time = history[j].time
          /\ ~history[i].result.isAllowed
          /\ history[j].result.isAllowed
    /\ \E i, j \in DOMAIN history :
          /\ ClientOf(history[i].request) = ClientOf(history[j].request)
          /\ history[i].request.href # history[j].request.href
    /\ \E i, j \in DOMAIN history :
          /\ i < j
          /\ ClientOf(history[i].request) # ClientOf(history[j].request)
          /\ history[i].request.href # history[j].request.href
          /\ StreamKey(history[i].request) = StreamKey(history[j].request)
          /\ history[j].time = history[i].time
          /\ history[j].count = history[i].count + 1

\* a client whose URL has a colon in its query, and a client whose
\* x-forwarded-for holds the first one's address, a colon and the start of
\* that URL: the text `${identifier}:${request.url}` is the same for both
CollidingRequests ==
    {GetRequest([cfConnectingIp |-> NoHeader, realIp |-> NoHeader,
                 forwarded |-> <<"203.0.113.7">>],
                Absent, Absent, "x:" \o Origin \o Path),
     GetRequest([cfConnectingIp |-> NoHeader, realIp |-> NoHeader,
                 forwarded |-> <<"203.0.113.7:" \o Origin \o Path \o "?sample=x">>],
                Absent, Absent, Absent)}

\* the streams of C25: two clients on one URL, one of them also on another,
\* and a client whose key is that of the latter
IsolationRequests == LimiterRequests \cup CollidingRequests

MaxIsolationCalls == 3

\* one limiter, of a small configuration
IsolationInit ==
    /\ RateInit
    /\ limiterConfig.message = Absent

\* time runs until just after the end of a window opened at 0
IsolationNext ==
    \/ \E req \in IsolationRequests : calls < MaxIsolationCalls /\ LimiterCall(req)
    \/ cleanupTimer
    \/ (now <= TestWindow /\ ClockTick)

IsolationSpec == IsolationInit /\ [][IsolationNext]_vars

(***************************************************************************)
(* SharedStoreSpec: every request is served by a limiter built for it,     *)
(* rateLimit(config)(request), as the route handlers do; the limiters are  *)
(* of different configurations and all use the store of the module.        *)
(***************************************************************************)
MaxSharedCalls == 3

\* the configurations limiters are built with: a pass-one, a pass-some with
\* a longer window, and the preset the handlers use
SharedConfigs ==
    {[maxRequests |-> 1, windowMs |-> TestWindow, message |-> Absent],
     [maxRequests |-> MaxLimit, windowMs |-> TestWindow + 1, message |-> Absent],
     StandardPreset}

\* rateLimit(config)(request): a limiter is built and called once
FreshLimiterCall(config, req) ==
    /\ UNCHANGED uiVars
    /\ calls < MaxSharedCalls
    /\ calls' = calls + 1
    /\ request' = req
    /\ limiterConfig' = config
    /\ LET rl == checkRateLimit(config, req, rateLimitStore, now)
       IN /\ rateLimitStore' = rl.store
          /\ rateLimitResult' = rl.result
          /\ history' = Append(history, [key |-> RateLimitKey(req), time |-> now,
                                         request |-> req, config |-> config,
                                         result |-> rl.result,
                                         count |-> rl.store[RateLimitKey(req)].count])
    /\ UNCHANGED <<now, pc, soundingFetch, heatFetch, sounding, dataSource,
                   heatwaveData, response, shadow, trend>>

SharedStoreInit ==
    /\ RateInit
    /\ limiterConfig = StandardPreset

SharedStoreNext ==
    \/ \E config \in SharedConfigs, req \in LimiterRequests :
           FreshLimiterCall(config, req)
    \/ cleanupTimer
    \/ ClockTick

SharedStoreSpec == SharedStoreInit /\ [][SharedStoreNext]_vars

\* C26: the count and the reset time of a key live in the one store of the
\* module: a call on a key whose window is still open continues from the
\* count the previous call on that key left and keeps its reset time,
\* whichever limiter (newly built, of the same or of another configuration)
\* made either call, and is allowed by its own limit on the shared count
C26_LimitersShareOneStore ==
    \A j \in DOMAIN history :
        LET i == PrevCall(j)
        IN /\ history[j].result.isAllowed =
                  (history[j].count <= history[j].config.maxRequests)
           /\ (i # 0 /\ ~(history[i].result.resetTime < history[j].time)) =>
                  /\ history[j].count = history[i].count + 1
                  /\ history[j].result.resetTime = history[i].result.resetTime

\* a limiter passing MaxLimit requests let one through, and a limiter of
\* another configuration, built afterwards, counted on and refused
C26_Witness ==
    \E j \in DOMAIN history :
        LET i == PrevCall(j)
        IN /\ i # 0
           /\ history[i].config # history[j].config
           /\ history[i].result.isAllowed
           /\ history[j].count = 2
           /\ ~history[j].result.isAllowed

(***************************************************************************)
(* Claims about analyzeTrend, checked under TrendSpec                      *)
(***************************************************************************)
TrendReturned == trend # NullValue /\ trend.state = "returned"

\* C16: a TrendResult says "warming" only with a positive slope and a
\* significant test, "cooling" only with a negative slope and a significant
\* test, and "no-trend" in every other case.
C16_DirectionNeedsSlopeAndSignificance ==
    (TrendReturned /\ ~trend.outcome.threw) =>
        LET r == trend.outcome.result
            up == OlsSlope(r.series).num > 0
            down == OlsSlope(r.series).num < 0
        IN /\ r.direction \in {"warming", "cooling", "no-trend"}
           /\ r.direction = "warming" <=> (up /\ r.significant)
           /\ r.direction = "cooling" <=> (down /\ r.significant)

\* a rising series too short to be significant is labelled "no-trend", and
\* so the label does not follow from the slope
C16_Witness ==
    /\ TrendReturned /\ ~trend.outcome.threw
    /\ trend.outcome.result.slopePerYear.num > 0
    /\ ~trend.outcome.result.significant
    /\ trend.outcome.result.direction = "no-trend"

\* C17: analyzeTrend of fewer than 3 points fails with
\* InsufficientDataError, which is not ValidationError, and gives no
\* TrendResult; with 3 points or more it does not fail with that error.
C17_FewerThanThreePointsIsInsufficientData ==
    TrendReturned =>
        IF Len(trend.series) < 3
        THEN /\ trend.outcome.threw
             /\ trend.outcome.error = "InsufficientDataError"
             /\ trend.outcome.error # "ValidationError"
             /\ "result" \notin DOMAIN trend.outcome
        ELSE trend.outcome.threw => trend.outcome.error # "InsufficientDataError"

\* a series of exactly 2 points was refused
C17_Witness ==
    /\ TrendReturned
    /\ Len(trend.series) = 2
    /\ trend.outcome.threw

(***************************************************************************)
(* Claims about the map-data route, checked under MapSpec                  *)
(***************************************************************************)
\* C21: a GET /api/map-data whose layer is missing or is not one of the five
\* known layers is answered 400 "Invalid layer type" and with no data,
\* whatever year, cropType and date it carries.
C21_UnknownLayerIsRejected ==
    (mapRoute.pc = "done" /\ mapRoute.request.layer \notin MapLayers) =>
        mapRoute.response = InvalidLayerResponse

(***************************************************************************)
(* Claims about the CountyMap component, checked under CountyMapSpec       *)
(***************************************************************************)
\* C27: when the component is mounted and no loadMapData call is in flight,
\* the county polygons on the map are those of the response for the layer
\* (and crop type) selected last
C27_PolygonsAreOfTheLastSelection ==
    (countyMap.mounted /\ InFlight(countyMap) = {}) =>
        \A g \in countyMap.geoJson :
            g.params = MapDataParams(countyMap.layer, countyMap.cropType)

(***************************************************************************)
(* Claims about the RadarOverlay component, checked under RadarSpec        *)
(***************************************************************************)
\* C28: when the overlay is disabled or unmounted and no updateRadar call
\* is in flight, no radar tile layer of the component is on the map
C28_DisabledOverlayLeavesNoLayer ==
    ((~radar.enabled \/ ~radar.mounted) /\ UpdatesInFlight(radar) = {}) =>
        radar.onMap = {}

\* C29: at most one radar tile layer of the component is on the map, and
\* it is the one radarLayerRef holds
C29_OneTrackedLayerAtMost ==
    /\ Cardinality(radar.onMap) <= 1
    /\ \A l \in radar.onMap : l = radar.radarLayerRef

====
